---- MODULE Spec2Model ----
(***************************************************************************)
(* A model of database/service.py (DatabaseService): connection           *)
(* management, execute_query, the SOURCE script engine and the schema     *)
(* change registry.  Text is modelled as a sequence of one-character      *)
(* strings, so that the classifier, the display-directive cleaner and the *)
(* statement splitter are computed the way the code computes them.        *)
(***************************************************************************)
EXTENDS Integers, Sequences, FiniteSets, TLC

(***************************************************************************)
(* Bounds of the model.                                                    *)
(***************************************************************************)
\* Client objects DatabaseClientFactory.create can hand out in one behaviour.
MaxClients == 2
\* Python's recursion limit, scaled: the number of nested _execute_script
\* frames beyond which a further nested SOURCE ends in RecursionError.
MaxDepth == 3

\* the longest list of schema-change callbacks
MaxCallbacks == 3

(***************************************************************************)
(* Text: str methods used by the service.                                  *)
(***************************************************************************)
\* Optional values: None, or Some(x)
None == <<>>
Some(x) == <<x>>
\* the value of _active_connection when there is no client
NoClient == 0
\* no thread holds the lock
NoThread == "none"

LowerChars == <<"a", "b", "c", "d", "e", "f", "g", "h", "i", "j", "k", "l", "m",
                "n", "o", "p", "q", "r", "s", "t", "u", "v", "w", "x", "y", "z">>
UpperChars == <<"A", "B", "C", "D", "E", "F", "G", "H", "I", "J", "K", "L", "M",
                "N", "O", "P", "Q", "R", "S", "T", "U", "V", "W", "X", "Y", "Z">>
Digits == {"0", "1", "2", "3", "4", "5", "6", "7", "8", "9"}

Range(s) == {s[i] : i \in 1..Len(s)}

LowerSet == Range(LowerChars)
AlnumSet == Range(LowerChars) \cup Range(UpperChars) \cup Digits
UpperOf == [c \in LowerSet |->
               UpperChars[CHOOSE i \in 1..Len(LowerChars) : LowerChars[i] = c]]

\* str.isalnum() on one character
IsAlnum(c) == c \in AlnumSet

\* the characters str.strip() and regex \s treat as whitespace
IsSpace(c) == c \in {" ", "\t", "\n", "\r"}

UpperChar(c) == IF c \in LowerSet THEN UpperOf[c] ELSE c

\* str.upper()
Upper(s) == [i \in 1..Len(s) |-> UpperChar(s[i])]

\* str.startswith(p), str.endswith(p)
StartsWith(s, p) == Len(p) <= Len(s) /\ SubSeq(s, 1, Len(p)) = p
EndsWith(s, p) == Len(p) <= Len(s) /\ SubSeq(s, Len(s) - Len(p) + 1, Len(s)) = p

\* str.lstrip(), str.rstrip(), str.strip()
RECURSIVE LStrip(_)
LStrip(s) == IF s # <<>> /\ IsSpace(Head(s)) THEN LStrip(Tail(s)) ELSE s

RECURSIVE RStrip(_)
RStrip(s) ==
    IF s # <<>> /\ IsSpace(s[Len(s)]) THEN RStrip(SubSeq(s, 1, Len(s) - 1)) ELSE s

Strip(s) == RStrip(LStrip(s))

\* str.split(sep) for a one-character separator: the list of fields
RECURSIVE SplitOn(_, _)
SplitOn(s, sep) ==
    IF \E i \in 1..Len(s) : s[i] = sep
    THEN LET i == CHOOSE j \in 1..Len(s) : s[j] = sep /\ \A k \in 1..(j - 1) : s[k] # sep
         IN  <<SubSeq(s, 1, i - 1)>> \o SplitOn(SubSeq(s, i + 1, Len(s)), sep)
    ELSE <<s>>

\* sep.join(parts) for a one-character separator
RECURSIVE Join(_, _)
Join(parts, sep) ==
    IF parts = <<>> THEN <<>>
    ELSE IF Len(parts) = 1 THEN parts[1]
    ELSE parts[1] \o <<sep>> \o Join(Tail(parts), sep)

\* a split that leaves the text in one field
WholeText(s) == IF LStrip(s) = <<>> THEN <<>> ELSE <<LStrip(s)>>

\* str.split(maxsplit=1) on whitespace: at most two fields, the second one
\* being the rest of the text with its leading whitespace removed
SplitFirstWord(s) ==
    LET t == LStrip(s)
    IN  IF t = <<>> THEN <<>>
        ELSE IF \E i \in 1..Len(t) : IsSpace(t[i])
        THEN LET i == CHOOSE j \in 1..Len(t) :
                          IsSpace(t[j]) /\ \A k \in 1..(j - 1) : ~IsSpace(t[k])
                 rest == LStrip(SubSeq(t, i, Len(t)))
             IN  IF rest = <<>> THEN <<SubSeq(t, 1, i - 1)>>
                 ELSE <<SubSeq(t, 1, i - 1), rest>>
        ELSE <<t>>

\* str.replace(pat, rep)
RECURSIVE ReplaceAll(_, _, _)
ReplaceAll(s, pat, rep) ==
    IF s = <<>> THEN <<>>
    ELSE IF StartsWith(s, pat)
    THEN rep \o ReplaceAll(SubSeq(s, Len(pat) + 1, Len(s)), pat, rep)
    ELSE <<Head(s)>> \o ReplaceAll(Tail(s), pat, rep)

(***************************************************************************)
(* Query classification and display directives.                            *)
(***************************************************************************)
\* whether t, a suffix of the text, is matched to its end by the pattern
\*   \s*\\[Gg]\s*;?\s*$
VerticalFormatMatch(t) ==
    LET u == LStrip(t)
    IN  /\ Len(u) >= 2
        /\ u[1] = "\\"
        /\ u[2] \in {"G", "g"}
        /\ LET v == LStrip(SubSeq(u, 3, Len(u)))
           IN  v = <<>> \/ (v[1] = ";" /\ LStrip(Tail(v)) = <<>>)

\* re.search(_VERTICAL_FORMAT_PATTERN, sql)
has_vertical_format_directive(sql) ==
    \E i \in 1..Len(sql) : VerticalFormatMatch(SubSeq(sql, i, Len(sql)))

\* re.sub(_VERTICAL_FORMAT_PATTERN, ";" if ";" in match else "", sql): the
\* leftmost match runs to the end of the text, so it is the only one
_clean_display_directives(sql) ==
    IF has_vertical_format_directive(sql)
    THEN LET i == CHOOSE j \in 1..Len(sql) :
                      /\ VerticalFormatMatch(SubSeq(sql, j, Len(sql)))
                      /\ \A k \in 1..(j - 1) : ~VerticalFormatMatch(SubSeq(sql, k, Len(sql)))
             m == SubSeq(sql, i, Len(sql))
         IN  SubSeq(sql, 1, i - 1) \o (IF ";" \in Range(m) THEN <<";">> ELSE <<>>)
    ELSE sql

_QUERY_TYPE_PREFIXES ==
    <<
        <<<<"W", "I", "T", "H">>, "SELECT">>,
        <<<<"S", "E", "L", "E", "C", "T">>, "SELECT">>,
        <<<<"I", "N", "S", "E", "R", "T">>, "INSERT">>,
        <<<<"U", "P", "D", "A", "T", "E">>, "UPDATE">>,
        <<<<"D", "E", "L", "E", "T", "E">>, "DELETE">>,
        <<<<"S", "H", "O", "W">>, "SHOW">>,
        <<<<"S", "E", "T">>, "SET">>,
        <<<<"C", "R", "E", "A", "T", "E">>, "CREATE">>,
        <<<<"D", "R", "O", "P">>, "DROP">>,
        <<<<"A", "L", "T", "E", "R">>, "ALTER">>,
        <<<<"D", "E", "S", "C", "R", "I", "B", "E">>, "DESCRIBE">>,
        <<<<"D", "E", "S", "C">>, "DESC">>,
        <<<<"E", "X", "P", "L", "A", "I", "N">>, "EXPLAIN">>,
        <<<<"U", "S", "E">>, "USE">>,
        <<<<"B", "E", "G", "I", "N">>, "BEGIN">>,
        <<<<"S", "T", "A", "R", "T", " ", "T", "R", "A", "N", "S", "A", "C", "T", "I", "O", "N">>, "BEGIN">>,
        <<<<"C", "O", "M", "M", "I", "T">>, "COMMIT">>,
        <<<<"R", "O", "L", "L", "B", "A", "C", "K">>, "ROLLBACK">>,
        <<<<"G", "R", "A", "N", "T">>, "GRANT">>,
        <<<<"R", "E", "V", "O", "K", "E">>, "REVOKE">>,
        <<<<"T", "R", "U", "N", "C", "A", "T", "E">>, "TRUNCATE">>,
        <<<<"R", "E", "P", "L", "A", "C", "E">>, "REPLACE">>,
        <<<<"S", "O", "U", "R", "C", "E">>, "SOURCE">>
    >>

\* a prefix test that does not look at the character after the keyword
PrefixOnly(sql_upper, prefix) == StartsWith(sql_upper, prefix)

\* the first table entry whose keyword is a prefix of sql_upper followed by
\* the end of the text or a non-alphanumeric character
PrefixMatches(sql_upper, prefix) ==
    /\ StartsWith(sql_upper, prefix)
    /\ (Len(sql_upper) = Len(prefix) \/ ~IsAlnum(sql_upper[Len(prefix) + 1]))

_classify_query(sql) ==
    IF Strip(sql) = <<>> THEN "OTHER"
    ELSE LET sql_upper == Upper(Strip(sql))
             hits == {i \in 1..Len(_QUERY_TYPE_PREFIXES) :
                          PrefixMatches(sql_upper, _QUERY_TYPE_PREFIXES[i][1])}
         IN  IF hits = {} THEN "OTHER"
             ELSE _QUERY_TYPE_PREFIXES[CHOOSE i \in hits : \A j \in hits : i <= j][2]

(***************************************************************************)
(* The SOURCE command: path parsing, file reading, statement splitting.    *)
(***************************************************************************)
Raise(exc, msg) == [ok |-> FALSE, exc |-> exc, msg |-> msg]
Return(value) == [ok |-> TRUE, value |-> value]

kwSOURCE == <<"S", "O", "U", "R", "C", "E">>
kwDELIMITER == <<"D", "E", "L", "I", "M", "I", "T", "E", "R">>

\* whether re.search(r"SOURCE\s+(.+)$", sql, re.IGNORECASE) matches with the
\* keyword at position p: whitespace follows it, and after the whitespace
\* comes a non-empty rest of the text holding no line break
SourcePatternAt(sql, p) ==
    /\ p + Len(kwSOURCE) <= Len(sql)
    /\ Upper(SubSeq(sql, p, p + Len(kwSOURCE) - 1)) = kwSOURCE
    /\ IsSpace(sql[p + Len(kwSOURCE)])
    /\ LET rest == LStrip(SubSeq(sql, p + Len(kwSOURCE), Len(sql)))
       IN  rest # <<>> /\ "\n" \notin Range(rest)

_parse_source_path(sql0) ==
    IF Strip(sql0) = <<>> THEN Raise("ValueError", "SOURCE command is empty")
    ELSE
    LET s1 == Strip(sql0)
        sql == IF EndsWith(s1, <<";">>) THEN RStrip(SubSeq(s1, 1, Len(s1) - 1)) ELSE s1
        ps == {p \in 1..Len(sql) : SourcePatternAt(sql, p)}
    IN  IF ps = {} THEN Raise("ValueError", "\nUsage: \\. <filename> | source <filename>")
        ELSE
        LET p == CHOOSE q \in ps : \A r \in ps : q <= r
            path_str == Strip(LStrip(SubSeq(sql, p + Len(kwSOURCE), Len(sql))))
        IN  IF path_str = <<>>
            THEN Raise("ValueError", "\nUsage: \\. <filename> | source <filename>")
            ELSE IF Len(path_str) >= 1 /\ path_str[1] \in {"\"", "'"}
                    /\ path_str[Len(path_str)] = path_str[1]
            THEN LET quote_char == path_str[1]
                     inner == SubSeq(path_str, 2, Len(path_str) - 1)
                     unq == ReplaceAll(inner, <<"\\", quote_char>>, <<quote_char>>)
                 IN  Return(ReplaceAll(unq, <<"\\", "\\">>, <<"\\">>))
            ELSE Return(path_str)

\* a _read_script_file without its checks: whatever the path, it hands back
\* the text  SELECT 1
ReadAnyPath(fsys, file_path) == Return(<<"S", "E", "L", "E", "C", "T", " ", "1">>)

\* _read_script_file against a file system fsys: a function from the paths
\* it knows to [kind, content]; any other path does not exist
_read_script_file(fsys, file_path) ==
    IF file_path \notin DOMAIN fsys \/ fsys[file_path].kind = "missing"
    THEN Raise("FileNotFoundError", "Failed to open file, error: No such file")
    ELSE IF fsys[file_path].kind = "dir"
    THEN Raise("ValueError", "Failed to open file, error: Is a directory")
    ELSE IF fsys[file_path].kind = "denied"
    THEN Raise("PermissionError", "Failed to open file, error: Permission denied")
    ELSE Return(fsys[file_path].content)

\* a loop body that adds the line to the pending statement and never closes it
AccumulateLine(st, line) == [st EXCEPT !.current = Append(@, line)]

\* one iteration of the loop of _split_sql_statements over the lines
\* st = [statements, current, current_delimiter]
SplitLine(st, line) ==
    LET stripped == Strip(line)
    IN  IF stripped = <<>>
        THEN IF st.current # <<>>
             THEN [st EXCEPT !.current = Append(@, line)]
             ELSE st
        ELSE IF StartsWith(stripped, <<"-", "-">>) \/ StartsWith(stripped, <<"#">>)
        THEN st
        ELSE IF StartsWith(Upper(stripped), kwDELIMITER)
        THEN LET stmt == Strip(Join(st.current, "\n"))
                 flushed ==
                     IF st.current # <<>> /\ stmt # <<>>
                        /\ ~StartsWith(Upper(stmt), kwDELIMITER)
                     THEN Append(st.statements, stmt)
                     ELSE st.statements
                 parts == SplitFirstWord(stripped)
             IN  [statements |-> flushed,
                  current |-> <<>>,
                  current_delimiter |->
                      IF Len(parts) > 1 THEN Strip(parts[2]) ELSE st.current_delimiter]
        ELSE LET cur == Append(st.current, line)
                 d == st.current_delimiter
             IN  IF EndsWith(stripped, d)
                 THEN LET joined == Join(cur, "\n")
                          r == RStrip(joined)
                          stmt == IF EndsWith(r, d)
                                  THEN Strip(SubSeq(r, 1, Len(r) - Len(d)))
                                  ELSE joined
                      IN  [st EXCEPT !.statements =
                                         IF stmt # <<>> THEN Append(@, stmt) ELSE @,
                                     !.current = <<>>]
                 ELSE [st EXCEPT !.current = cur]

RECURSIVE SplitLoop(_, _)
SplitLoop(st, lines) ==
    IF lines = <<>> THEN st ELSE SplitLoop(SplitLine(st, Head(lines)), Tail(lines))

_split_sql_statements(content) ==
    LET st == SplitLoop([statements |-> <<>>, current |-> <<>>,
                         current_delimiter |-> <<";">>],
                        SplitOn(content, "\n"))
        stmt == Strip(Join(st.current, "\n"))
    IN  IF st.current # <<>> /\ stmt # <<>>
        THEN Append(st.statements, stmt)
        ELSE st.statements

(***************************************************************************)
(* The state of one DatabaseService and of its collaborators.              *)
(***************************************************************************)
VARIABLES
    active,        \* _active_connection: a client id, or NoClient
    config,        \* _connection_config
    connId,        \* _connection_id
    currentDb,     \* _current_database
    vectorStatus,  \* _vector_capability_status
    callbacks,     \* _schema_change_callbacks, in registration order
    sourceCb,      \* _source_display_callback is set
    created,       \* number of clients the factory has built
    closed,        \* the clients close() has been called on
    everActive,    \* the clients that have been the active one
    registered,    \* callbacks passed to register_... and not unregistered since
    stack,         \* the _execute_script frames of the call in progress
    log,           \* what the current (or last) call did, in order
    ret,           \* the last completed call and its outcome
    scripts,       \* the script files as SOURCE finds them: for each path what
                   \* reading and splitting the file gives; the files do not
                   \* change, so this is evaluated in Init and looked up after
    locked,        \* the calls the current (or last) call made on a client
                   \* while it held _lock, in order
    lastConnected, \* the config of the most recent connect that returned
    lastCtx,       \* _last_query_context
    lock,          \* the thread that holds _lock, or NoThread
    threads,       \* for each thread the call of the service it is inside
    duck           \* the fields of a DuckDBClient that its transaction methods use

vars == <<active, config, connId, currentDb, vectorStatus, callbacks, sourceCb,
          created, closed, everActive, registered, stack, log, ret, scripts,
          locked, lastConnected, lastCtx, lock, threads, duck>>

Clients == 1..MaxClients

\* the threads that call the service, and a thread that is in no call of it
Threads == {"t1", "t2"}
Idle == [op |-> "idle", at |-> "idle", client |-> NoClient, arg |-> None, overlapped |-> {}]

dbApp == <<"a", "p", "p">>
cfgPrompt == [engine |-> "mysql", host |-> "h1", port |-> 3306, user |-> "u", password |-> None,
              database |-> None, ssl_options |-> FALSE]
cfgFull == [engine |-> "mysql", host |-> "h2", port |-> 3307, user |-> "u", password |-> Some("pw"),
            database |-> Some(dbApp), ssl_options |-> TRUE]
Configs == {cfgPrompt, cfgFull}

Callbacks == {"cb1", "cb2"}
\* a callback whose call raises an exception
cbFails == "cb_fails"
Raises(cb) == cb = cbFails

\* f"{config.engine}_{config.host}_{config.port}_{config.user}"
ConnectionId(cfg) == <<cfg.engine, cfg.host, cfg.port, cfg.user>>

\* the events _notify_schema_change produces: one call per list entry, in
\* order; an exception of a callback is caught and logged
NotifyEvent(cb) == [e |-> "notify", cb |-> cb, raised |-> Raises(cb)]

\* a notification that ends at the first callback that raises
NotifyStopsAtFailure(cbs) ==
    LET failing == {i \in 1..Len(cbs) : Raises(cbs[i])}
        last == IF failing = {} THEN Len(cbs) ELSE CHOOSE i \in failing : \A j \in failing : i <= j
    IN  [i \in 1..last |-> NotifyEvent(cbs[i])]

_notify_schema_change(cbs) == [i \in 1..Len(cbs) |-> NotifyEvent(cbs[i])]

\* what the vidx_disabled query of _detect_vector_capability can yield
ProbeOutcomes == {"raise", "no_rows", "OFF", "off", "ON", "empty_value"}

\* a probe that takes a failed query for a missing variable
DetectFailureAsDisabled(client, probe) ==
    IF client = NoClient THEN "UNKNOWN"
    ELSE IF probe \in {"OFF", "off"} THEN "ENABLED" ELSE "DISABLED"

_detect_vector_capability(client, probe) ==
    IF client = NoClient THEN "UNKNOWN"
    ELSE IF probe = "raise" THEN "UNKNOWN"
    ELSE IF probe = "no_rows" THEN "DISABLED"
    ELSE LET value == IF probe = "empty_value" THEN <<>>
                      ELSE Upper(IF probe = "OFF" THEN <<"O", "F", "F">>
                                 ELSE IF probe = "off" THEN <<"o", "f", "f">>
                                 ELSE <<"O", "N">>)
         IN  IF value = <<"O", "F", "F">> THEN "ENABLED" ELSE "DISABLED"

\* what SELECT DATABASE() can yield right after a connect
DbInitOutcomes == {"raise", "null", "db"}
dbDefault == <<"d", "e", "f">>

InitialDatabase(cfg, dbinit) ==
    IF cfg.database # None THEN cfg.database
    ELSE IF dbinit = "db" THEN Some(dbDefault)
    ELSE None

\* the outcome of a call of the service: it returned value, it raised, or (a
\* SOURCE command whose script is being run) it is still in progress
Returned(op, arg, value) ==
    [op |-> op, status |-> "returned", arg |-> arg, value |-> value, script |-> None]
Raised(op, arg, exc, msg) ==
    [op |-> op, status |-> "raised", arg |-> arg, value |-> [exc |-> exc, msg |-> msg],
     script |-> None]
InProgress(op, arg) ==
    [op |-> op, status |-> "running", arg |-> arg, value |-> None, script |-> None]


(***************************************************************************)
(* connect, disconnect, get_connection_info.                               *)
(***************************************************************************)
CloseEvent(c) == [e |-> "close", client |-> c]
InstallEvent(c) == [e |-> "install", client |-> c]
\* client.execute(sql), and whether it raised
ClientExecute(c, sql, raised) ==
    [e |-> "client.execute", client |-> c, sql |-> sql, raised |-> raised]

ClosedBy(events) == {events[i].client : i \in {j \in 1..Len(events) : events[j].e = "close"}}

\* a connect that installs the new client without closing the one it replaces
ClosePreviousSkipped(old) == <<>>

\* connect, under the lock: the previous client, if any, is closed (an
\* exception of close() is caught and logged) before the new one is installed
ClosePrevious(old) == IF old # NoClient THEN <<CloseEvent(old)>> ELSE <<>>

sqlSelectDatabase == <<"S", "E", "L", "E", "C", "T", " ", "D", "A", "T", "A", "B", "A", "S", "E", "(", ")">>
sqlShowVidx == <<"S", "H", "O", "W", " ", "V", "A", "R", "I", "A", "B", "L", "E", "S">>

\* the service object exists: __del__ has not run
Alive == ret.op # "__del__"

\* the ways one connect call can go: to the end, cancelled (KeyboardInterrupt)
\* at one of its steps, or failed in the client factory
ConnectPaths == {"ok", "cancel_prompt", "create_fail", "cancel_create", "cancel_swap",
                 "cancel_dbinit", "cancel_probe", "cancel_notify"}

NeedsPrompt(cfg) == cfg.password = None /\ cfg.user # ""

Cancelled(op, cfg) == Raised(op, cfg, "ConnectionError", "Connection cancelled by user")
Failed(op, cfg) == Raised(op, cfg, "ConnectionError", "Connection failed")

\* a handler that lets every exception pass
ExceptNothing(exc) == FALSE

\* whether a clause "except Exception" catches what was raised: an exception
\* of a client or a callback, not a KeyboardInterrupt
ExceptException(exc) == exc = "Exception"

\* a call made on a client while _lock was held, and what it raised
LockedCall(method, c, exc) == [e |-> method, client |-> c, raised |-> exc]

\* what a call on a client raises when it fails
Exc(fails) == IF fails THEN "Exception" ELSE "none"

\* the rows fetchall() gave the capability probe
ProbeRows(c, probe) == [e |-> "client.fetchall", client |-> c, rows |-> probe]

\* a cleanup that leaves the client it was to close open
CleanupClientSkipped(c) == <<>>

\* _cleanup_client: the client built by this call, if any, is closed and an
\* exception of close() is logged
CleanupClient(c) == IF c # NoClient THEN <<CloseEvent(c)>> ELSE <<>>

\* connect(config), called as op (connect by the user, or by reconnect);
\* closeRaises: close() of the client being replaced raises an exception
ConnectAs(op, cfg, how, dbinit, probe, closeRaises) ==
    /\ Alive
    /\ stack = <<>>
    /\ how = "cancel_prompt" => NeedsPrompt(cfg)
    /\ how = "cancel_dbinit" => cfg.database = None
    /\ how = "cancel_notify" => callbacks # <<>>
    /\ how = "cancel_swap" => active # NoClient
    /\ closeRaises => /\ active # NoClient
                      /\ how \in {"ok", "cancel_dbinit", "cancel_probe", "cancel_notify"}
    /\ UNCHANGED <<lastCtx, lock, threads, scripts, duck, callbacks, sourceCb, registered, stack>>
    /\ IF how \in {"cancel_prompt", "cancel_create", "create_fail"}
       THEN \* no client was built: nothing to close
            /\ IF how # "create_fail" /\ active = NoClient
               THEN \* _clear_connection_state: _active_connection == client (None)
                    /\ active' = NoClient /\ config' = None /\ connId' = None
               ELSE UNCHANGED <<active, config, connId>>
            /\ log' = CleanupClient(NoClient)
            /\ locked' = <<>>
            /\ ret' = IF how = "create_fail" THEN Failed(op, cfg) ELSE Cancelled(op, cfg)
            /\ UNCHANGED <<currentDb, vectorStatus, created, closed, everActive,
                           lastConnected>>
       ELSE /\ created < MaxClients
            /\ LET client == created + 1
                   stored == IF NeedsPrompt(cfg)
                             THEN [cfg EXCEPT !.password = Some("typed")] ELSE cfg
                   \* what close() of the previous client lets out of its try
                   escaped == IF how = "cancel_swap" THEN "KeyboardInterrupt"
                              ELSE IF closeRaises /\ ~ExceptException("Exception")
                              THEN "Exception" ELSE "none"
                   swap == ClosePrevious(active) \o <<InstallEvent(client)>>
                   asked == IF cfg.database = None
                            THEN <<ClientExecute(client, sqlSelectDatabase,
                                                dbinit = "raise" \/ how = "cancel_dbinit")>>
                            ELSE <<>>
                   probed == <<ClientExecute(client, sqlShowVidx,
                                            probe = "raise" \/ how = "cancel_probe")>>
                             \o (IF probe = "raise" \/ how = "cancel_probe" THEN <<>>
                                 ELSE <<ProbeRows(client, probe)>>)
                   told == _notify_schema_change(callbacks)
                   done == IF how = "ok" THEN swap \o asked \o probed \o told
                           ELSE IF how = "cancel_dbinit" THEN swap \o asked
                           ELSE IF how = "cancel_probe" THEN swap \o asked \o probed
                           ELSE swap \o asked \o probed \o <<Head(told)>>
                   events == IF how = "ok" THEN done ELSE done \o CleanupClient(client)
               IN  /\ created' = client
                   /\ IF escaped # "none"
                      THEN \* the with block is left before the new client is
                           \* installed; _cleanup_client closes it, and
                           \* _clear_connection_state finds the previous one active
                           /\ log' = <<CloseEvent(active)>> \o CleanupClient(client)
                           /\ locked' = <<LockedCall("close", active, escaped)>>
                           /\ closed' = closed \cup {active} \cup ClosedBy(CleanupClient(client))
                           /\ ret' = IF escaped = "KeyboardInterrupt"
                                     THEN Cancelled(op, cfg) ELSE Failed(op, cfg)
                           /\ UNCHANGED <<active, config, connId, currentDb, vectorStatus,
                                          everActive, lastConnected>>
                      ELSE /\ everActive' = everActive \cup {client}
                           /\ closed' = closed \cup ClosedBy(events)
                           /\ log' = events
                           /\ locked' = IF active # NoClient
                                        THEN <<LockedCall("close", active, Exc(closeRaises))>>
                                        ELSE <<>>
                           /\ currentDb' = IF how = "cancel_dbinit" THEN currentDb
                                           ELSE InitialDatabase(cfg, dbinit)
                           /\ vectorStatus' = IF how \in {"cancel_dbinit", "cancel_probe"}
                                              THEN vectorStatus
                                              ELSE _detect_vector_capability(client, probe)
                           /\ IF how = "ok"
                              THEN /\ active' = client
                                   /\ config' = Some(stored)
                                   /\ connId' = Some(ConnectionId(cfg))
                                   /\ lastConnected' = Some(stored)
                                   /\ ret' = Returned(op, cfg, ConnectionId(cfg))
                              ELSE \* _clear_connection_state: the client is the active one
                                   /\ active' = NoClient /\ config' = None /\ connId' = None
                                   /\ ret' = Cancelled(op, cfg)
                                   /\ UNCHANGED lastConnected

Connect(cfg, how, dbinit, probe) ==
    \E closeRaises \in BOOLEAN : ConnectAs("connect", cfg, how, dbinit, probe, closeRaises)

\* a reconnect that replays the config of the last connect that returned
ReconnectConfigLastGood == lastConnected

\* the config reconnect looks at: self._connection_config
ReconnectConfig == config

\* reconnect(): connect with the stored config, or ValueError without one
Reconnect(how, dbinit, probe) ==
    IF ReconnectConfig = None
    THEN /\ Alive
         /\ stack = <<>>
         /\ ret' = Raised("reconnect", None, "ValueError",
                          "No previous connection configuration available")
         /\ log' = <<>>
         /\ locked' = <<>>
         /\ UNCHANGED <<lastConnected, lastCtx, lock, threads, scripts, duck, active, config, connId,
                        currentDb, vectorStatus, callbacks, sourceCb, created, closed,
                        everActive, registered, stack>>
    ELSE \E closeRaises \in BOOLEAN :
            ConnectAs("reconnect", ReconnectConfig[1], how, dbinit, probe, closeRaises)

\* a disconnect whose finally clause forgets the current database
DisconnectedStateKeepsDatabase ==
    [active |-> NoClient, config |-> None, connId |-> None, currentDb |-> currentDb,
     vectorStatus |-> "UNKNOWN"]

\* what the finally clause of disconnect leaves behind
DisconnectedState ==
    [active |-> NoClient, config |-> None, connId |-> None, currentDb |-> None,
     vectorStatus |-> "UNKNOWN"]

\* disconnect(), called as op (disconnect by the user, or by __exit__);
\* closeRaises: close() of the active client raises an exception
DisconnectBody(op, closeRaises) ==
    /\ Alive
    /\ stack = <<>>
    /\ closeRaises => active # NoClient
    /\ IF active # NoClient
       THEN LET escaped == closeRaises /\ ~ExceptException("Exception")
            IN  /\ closed' = closed \cup {active}
                /\ locked' = <<LockedCall("close", active, Exc(closeRaises))>>
                /\ log' = <<CloseEvent(active)>>
                          \o (IF escaped THEN <<>> ELSE _notify_schema_change(callbacks))
                /\ active' = DisconnectedState.active
                /\ config' = DisconnectedState.config
                /\ connId' = DisconnectedState.connId
                /\ currentDb' = DisconnectedState.currentDb
                /\ vectorStatus' = DisconnectedState.vectorStatus
                /\ ret' = IF escaped THEN Raised(op, None, "Exception", "close")
                          ELSE Returned(op, None, None)
       ELSE /\ log' = _notify_schema_change(callbacks)
            /\ locked' = <<>>
            /\ ret' = Returned(op, None, None)
            /\ UNCHANGED <<active, config, connId, currentDb, vectorStatus, closed>>
    /\ UNCHANGED <<lastConnected, lastCtx, scripts, duck, callbacks, sourceCb, created,
                   everActive, registered, stack>>

DisconnectAs(op, closeRaises) ==
    DisconnectBody(op, closeRaises) /\ UNCHANGED <<lock, threads>>

Disconnect == \E closeRaises \in BOOLEAN : DisconnectAs("disconnect", closeRaises)

\* __exit__: the context manager disconnects
Exit == \E closeRaises \in BOOLEAN : DisconnectAs("__exit__", closeRaises)

\* __del__: the active client, if any, is closed under the lock and an
\* exception of close() is dropped; no field is cleared
Del(closeRaises) ==
    /\ Alive
    /\ stack = <<>>
    /\ closeRaises => active # NoClient
    /\ IF active # NoClient
       THEN /\ closed' = closed \cup {active}
            /\ locked' = <<LockedCall("close", active, Exc(closeRaises))>>
            /\ log' = <<CloseEvent(active)>>
            /\ ret' = IF closeRaises /\ ~ExceptException("Exception")
                      THEN Raised("__del__", None, "Exception", "close")
                      ELSE Returned("__del__", None, None)
       ELSE /\ log' = <<>>
            /\ locked' = <<>>
            /\ ret' = Returned("__del__", None, None)
            /\ UNCHANGED closed
    /\ UNCHANGED <<lastConnected, lastCtx, lock, threads, scripts, duck, active, config, connId,
                   currentDb, vectorStatus, callbacks, sourceCb, created, everActive,
                   registered, stack>>

\* what get_transaction_state()/get_autocommit() of the client can do
TxOutcomes == {"raise", "autocommit_raises", "both"}

\* the dict get_connection_info returns, as a function from its keys
get_connection_info(tx) ==
    IF active = NoClient \/ config = None
    THEN [connected |-> FALSE]
    ELSE LET cfg == config[1]
             info == [connected |-> TRUE, connection_id |-> connId[1],
                      engine |-> cfg.engine, host |-> cfg.host, port |-> cfg.port,
                      user |-> cfg.user,
                      database |-> currentDb]
             ssl == IF cfg.ssl_options THEN ("ssl_enabled" :> TRUE) @@ info ELSE info
         IN  IF tx = "raise" THEN ssl
             ELSE IF tx = "autocommit_raises"
             THEN ("transaction_state" :> "NOT_IN_TRANSACTION") @@ ssl
             ELSE ("transaction_state" :> "NOT_IN_TRANSACTION") @@ ("autocommit" :> TRUE) @@ ssl

\* the calls get_connection_info makes on the client, inside its with block
InfoCalls(tx) ==
    IF active = NoClient \/ config = None THEN <<>>
    ELSE <<LockedCall("get_transaction_state", active, Exc(tx = "raise"))>>
         \o (IF tx = "raise" THEN <<>>
             ELSE <<LockedCall("get_autocommit", active, Exc(tx = "autocommit_raises"))>>)

GetConnectionInfoBody(tx) ==
    /\ Alive
    /\ stack = <<>>
    /\ ret' = Returned("get_connection_info", None, get_connection_info(tx))
    /\ log' = <<>>
    /\ locked' = InfoCalls(tx)
    /\ UNCHANGED <<lastConnected, lastCtx, scripts, duck, active, config, connId,
                   currentDb, vectorStatus, callbacks, sourceCb,
                   created, closed, everActive, registered, stack>>

GetConnectionInfo(tx) == GetConnectionInfoBody(tx) /\ UNCHANGED <<lock, threads>>

\* _detect_vector_capability(), called on its own
DetectVectorCapability(probe) ==
    /\ Alive
    /\ stack = <<>>
    /\ vectorStatus' = _detect_vector_capability(active, probe)
    /\ log' = IF active = NoClient THEN <<>>
              ELSE <<ClientExecute(active, sqlShowVidx, probe = "raise")>>
                   \o (IF probe = "raise" THEN <<>> ELSE <<ProbeRows(active, probe)>>)
    /\ ret' = Returned("_detect_vector_capability", None, None)
    /\ locked' = <<>>
    /\ UNCHANGED <<lastConnected, lastCtx, lock, threads, scripts, duck, active, config, connId,
                   currentDb, callbacks, sourceCb,
                   created, closed, everActive, registered, stack>>

\* has_vector_capability()
HasVectorCapability ==
    /\ Alive
    /\ stack = <<>>
    /\ ret' = Returned("has_vector_capability", None, vectorStatus = "ENABLED")
    /\ log' = <<>>
    /\ locked' = <<>>
    /\ UNCHANGED <<lastConnected, lastCtx, lock, threads, scripts, duck, active, config, connId,
                   currentDb, vectorStatus, callbacks, sourceCb,
                   created, closed, everActive, registered, stack>>

(***************************************************************************)
(* The callback registries.                                                *)
(***************************************************************************)
\* register_schema_change_callback: the method body holds its docstring only
register_schema_change_callback(cbs, cb) == cbs

RECURSIVE RemoveFirst(_, _)
RemoveFirst(s, x) ==
    IF s = <<>> THEN <<>>
    ELSE IF Head(s) = x THEN Tail(s)
    ELSE <<Head(s)>> \o RemoveFirst(Tail(s), x)

\* unregister_schema_change_callback: list.remove when present
unregister_schema_change_callback(cbs, cb) ==
    IF cb \in Range(cbs) THEN RemoveFirst(cbs, cb) ELSE cbs

RegisterCallback(cb) ==
    /\ Alive
    /\ stack = <<>>
    /\ callbacks' = register_schema_change_callback(callbacks, cb)
    /\ registered' = registered \cup {cb}
    /\ ret' = Returned("register", cb, None)
    /\ log' = <<>>
    /\ locked' = <<>>
    /\ UNCHANGED <<lastConnected, lastCtx, lock, threads, scripts, duck, active, config, connId, currentDb, vectorStatus, sourceCb,
                   created, closed, everActive, stack>>

UnregisterCallback(cb) ==
    /\ Alive
    /\ stack = <<>>
    /\ callbacks' = unregister_schema_change_callback(callbacks, cb)
    /\ registered' = registered \ {cb}
    /\ ret' = Returned("unregister", cb, None)
    /\ log' = <<>>
    /\ locked' = <<>>
    /\ UNCHANGED <<lastConnected, lastCtx, lock, threads, scripts, duck, active, config, connId, currentDb, vectorStatus, sourceCb,
                   created, closed, everActive, stack>>

\* set_source_display_callback(callback or None), clear_source_display_callback()
SetSourceDisplayCallback(on) ==
    /\ Alive
    /\ stack = <<>>
    /\ sourceCb' = on
    /\ ret' = Returned("set_source_display_callback", on, None)
    /\ log' = <<>>
    /\ locked' = <<>>
    /\ UNCHANGED <<lastConnected, lastCtx, lock, threads, scripts, duck, active, config, connId, currentDb, vectorStatus, callbacks,
                   created, closed, everActive, registered, stack>>

(***************************************************************************)
(* execute_query on one statement that is not a SOURCE command.            *)
(***************************************************************************)
RESULT_SET_QUERY_TYPES == {"SELECT", "SHOW", "DESCRIBE", "DESC", "EXPLAIN"}

\* what the backend can do with one statement: execute() raises, or it
\* returns and fetchall()/get_row_count() give these values
RowSets == {<<>>, <<"row">>}
RowCounts == {-1, 2}
ClientOutcomes == [exec : {"ok", "raise"}, rows : RowSets, row_count : RowCounts]

\* the outcomes that differ for a statement of type qt: fetchall() is called
\* for the result-set types, get_row_count() for the others
OutcomesFor(qt) ==
    {out \in ClientOutcomes :
        /\ out.exec = "raise" => out.rows = <<>> /\ out.row_count = -1
        /\ out.exec = "ok" /\ qt \in RESULT_SET_QUERY_TYPES => out.row_count = -1
        /\ out.exec = "ok" /\ qt \notin RESULT_SET_QUERY_TYPES => out.rows = <<>>}

QueryResult(qt, success, rows, columns, affected, error) ==
    [query_type |-> qt, success |-> success, rows |-> rows, columns |-> columns,
     affected_rows |-> affected, error |-> error]

\* the backtick character (the lexer accepts none inside a string)
Backtick == "BACKTICK"

\* a character of a database name: no backtick, semicolon or whitespace
IsNameChar(c) == c # Backtick /\ c # ";" /\ ~IsSpace(c)

\* whether the USE pattern (the keyword, whitespace, an optional backtick,
\* one or more name characters) matches with the keyword at position p
UsePatternAt(s, p) ==
    /\ p + 3 <= Len(s)
    /\ Upper(SubSeq(s, p, p + 2)) = <<"U", "S", "E">>
    /\ IsSpace(s[p + 3])
    /\ LET r == LStrip(SubSeq(s, p + 3, Len(s)))
           n == IF r # <<>> /\ r[1] = Backtick THEN Tail(r) ELSE r
       IN  n # <<>> /\ IsNameChar(n[1])

RECURSIVE TakeName(_)
TakeName(s) ==
    IF s # <<>> /\ IsNameChar(Head(s)) THEN <<Head(s)>> \o TakeName(Tail(s)) ELSE <<>>

_extract_database_from_use(sql) ==
    LET s == Strip(sql)
        ps == {p \in 1..Len(s) : UsePatternAt(s, p)}
    IN  IF ps = {} THEN None
        ELSE LET p == CHOOSE q \in ps : \A r \in ps : q <= r
                 r == LStrip(SubSeq(s, p + 3, Len(s)))
             IN  Some(TakeName(IF r[1] = Backtick THEN Tail(r) ELSE r))

\* an execute_query whose except clause reports the statement as done
RunOnClientLosesError(client, sql, qt, out, db, cbs) ==
    [result |-> QueryResult(qt, TRUE, <<>>, None, None, None),
     db |-> db,
     events |-> <<ClientExecute(client, sql, out.exec = "raise")>>]

\* an execute_query that handles a USE statement before it looks at what the
\* client did
RunOnClientUseFirst(client, sql, qt, out, db, cbs) ==
    [result |-> IF out.exec = "raise"
                THEN QueryResult(qt, FALSE, <<>>, None, None, Some("DatabaseError"))
                ELSE IF qt \in RESULT_SET_QUERY_TYPES
                THEN QueryResult(qt, TRUE, out.rows, Some("columns"), None, None)
                ELSE QueryResult(qt, TRUE, <<>>, None,
                                 IF out.row_count >= 0 THEN Some(out.row_count) ELSE None,
                                 None),
     db |-> IF qt = "USE" /\ _extract_database_from_use(sql) # None
            THEN _extract_database_from_use(sql) ELSE db,
     events |-> <<ClientExecute(client, sql, out.exec = "raise")>>
                \o (IF qt \in {"USE", "CREATE", "DROP", "ALTER"}
                    THEN _notify_schema_change(cbs) ELSE <<>>)]

\* the part of execute_query after _get_client_or_raise: the QueryResult, the
\* current database afterwards and what was called, in order
RunOnClient(client, sql, qt, out, db, cbs) ==
    IF out.exec = "raise"
    THEN [result |-> QueryResult(qt, FALSE, <<>>, None, None, Some("DatabaseError")),
          db |-> db,
          events |-> <<ClientExecute(client, sql, TRUE)>>]
    ELSE [result |->
              IF qt \in RESULT_SET_QUERY_TYPES
              THEN QueryResult(qt, TRUE, out.rows, Some("columns"), None, None)
              ELSE QueryResult(qt, TRUE, <<>>, None,
                               IF out.row_count >= 0 THEN Some(out.row_count) ELSE None,
                               None),
          db |-> IF qt = "USE" /\ _extract_database_from_use(sql) # None
                 THEN _extract_database_from_use(sql) ELSE db,
          events |-> <<ClientExecute(client, sql, FALSE)>>
                     \o (IF qt = "USE" THEN _notify_schema_change(cbs) ELSE <<>>)
                     \o (IF qt \in {"CREATE", "DROP", "ALTER"}
                         THEN _notify_schema_change(cbs) ELSE <<>>)]

_get_client_or_raise(client) ==
    IF client = NoClient
    THEN Raise("DatabaseError", "No active database connection")
    ELSE Return(client)

\* change_database(database_name); fails: client.change_database raises
ChangeDatabase(name, fails) ==
    /\ Alive
    /\ stack = <<>>
    /\ fails => active # NoClient
    /\ IF ~_get_client_or_raise(active).ok
       THEN /\ ret' = Raised("change_database", name, "DatabaseError",
                             "No active database connection")
            /\ log' = <<>>
            /\ UNCHANGED currentDb
       ELSE IF fails
       THEN /\ ret' = Raised("change_database", name, "DatabaseError", "change_database")
            /\ log' = <<[e |-> "client.change_database", client |-> active, raised |-> TRUE]>>
            /\ UNCHANGED currentDb
       ELSE /\ ret' = Returned("change_database", name, None)
            /\ log' = <<[e |-> "client.change_database", client |-> active, raised |-> FALSE]>>
                      \o _notify_schema_change(callbacks)
            /\ currentDb' = Some(name)
    /\ locked' = <<>>
    /\ UNCHANGED <<lastConnected, lastCtx, lock, threads, scripts, duck, active, config, connId,
                   vectorStatus, callbacks, sourceCb, created, closed, everActive,
                   registered, stack>>

(***************************************************************************)
(* begin_transaction, commit_transaction, rollback_transaction and         *)
(* set_autocommit.                                                         *)
(***************************************************************************)
TransactionOps == {"begin_transaction", "commit_transaction", "rollback_transaction",
                   "set_autocommit"}

\* the arguments of the operation op: set_autocommit takes a flag
TransactionArgs(op) == IF op = "set_autocommit" THEN {Some(TRUE), Some(FALSE)} ELSE {None}

\* the "operation" entry of the context handed to handle_database_error
OperationTag(op, arg) ==
    CASE op = "begin_transaction" -> <<"begin">>
      [] op = "commit_transaction" -> <<"commit">>
      [] op = "rollback_transaction" -> <<"rollback">>
      [] op = "set_autocommit" -> <<"set_autocommit", arg[1]>>

\* handle_database_error(e, context): the common error, with the context
handle_database_error(op, arg) == Raised(op, arg, "DatabaseError", OperationTag(op, arg))

\* the call of the method of the client that has the name of the operation
ClientCall(op, client, arg, raised) ==
    [e |-> "client", method |-> op, client |-> client, arg |-> arg, raised |-> raised]

\* an operation that returns without calling the client
ForwardSkipped(op, client, arg, fails) == <<>>

\* what the operation op calls on the client
ForwardToClient(op, client, arg, fails) == <<ClientCall(op, client, arg, fails)>>

\* the operation op with the argument arg; fails: the method of the client
\* raises an exception
TransactionOp(op, arg, fails) ==
    /\ Alive
    /\ stack = <<>>
    /\ fails => active # NoClient
    /\ IF ~_get_client_or_raise(active).ok
       THEN /\ ret' = Raised(op, arg, "DatabaseError", "No active database connection")
            /\ log' = <<>>
       ELSE /\ log' = ForwardToClient(op, active, arg, fails)
            /\ ret' = IF fails THEN handle_database_error(op, arg)
                      ELSE Returned(op, arg, None)
    /\ locked' = <<>>
    /\ UNCHANGED <<lastConnected, lastCtx, lock, threads, scripts, duck, active, config, connId,
                   currentDb, vectorStatus, callbacks, sourceCb, created, closed, everActive,
                   registered, stack>>

(***************************************************************************)
(* The script engine: _execute_source_command and _execute_script.         *)
(***************************************************************************)
\* the statement errors listed in an aggregated error text
ErrorCap == 10

Min(a, b) == IF a <= b THEN a ELSE b

NoStatements == QueryResult("SOURCE", TRUE, <<>>, None, None,
                            Some("No statements found in script"))

FileFailure(raised) == QueryResult("SOURCE", FALSE, <<>>, None, None, Some(raised.msg))

\* _read_script_file and the splitter of _execute_script on the file at path:
\* the statements of the script, or what _read_script_file raised
LoadScript(fsys, path) ==
    LET read == _read_script_file(fsys, path)
    IN  IF read.ok THEN Return(_split_sql_statements(read.value)) ELSE read

\* an _execute_script without the early return for a script of no statements
OpenScriptNoEmptyCheck(loaded, sql) ==
    LET parsed == _parse_source_path(sql)
    IN  IF ~parsed.ok THEN [kind |-> "result", result |-> FileFailure(parsed)]
        ELSE LET script == loaded[parsed.value]
             IN  IF ~script.ok THEN [kind |-> "result", result |-> FileFailure(script)]
                 ELSE [kind |-> "script", statements |-> script.value]

\* _execute_source_command up to the loop of _execute_script, with the files
\* as loaded: a file level failure or an empty script gives the result,
\* anything else the statements to run
OpenScript(loaded, sql) ==
    LET parsed == _parse_source_path(sql)
    IN  IF ~parsed.ok THEN [kind |-> "result", result |-> FileFailure(parsed)]
        ELSE LET script == loaded[parsed.value]
             IN  IF ~script.ok THEN [kind |-> "result", result |-> FileFailure(script)]
                 ELSE IF script.value = <<>>
                 THEN [kind |-> "result", result |-> NoStatements]
                 ELSE [kind |-> "script", statements |-> script.value]

\* the locals of one running _execute_script, and what its loop has done
NewFrame(statements, display) ==
    [statements |-> statements, i |-> 1, success_count |-> 0, error_count |-> 0,
     total_affected_rows |-> 0, errors |-> <<>>, display_callback |-> display,
     trace |-> <<>>]

CallEvent(f, stmt) == [e |-> "execute_query", pos |-> f.i, sql |-> stmt]
RaisedEvent(f) == [e |-> "raised", pos |-> f.i]
ReturnedEvent(f, result) == [e |-> "returned", pos |-> f.i, result |-> result]
DisplayEvent(f, stmt, result) ==
    [e |-> "display", pos |-> f.i, sql |-> stmt, result |-> result,
     use_vertical |-> has_vertical_format_directive(stmt)]

StatementError(f, msg) == [pos |-> f.i, of |-> Len(f.statements), msg |-> msg]

\* the except clause of the loop body
CountException(f, msg) ==
    [f EXCEPT !.error_count = @ + 1, !.errors = Append(@, StatementError(f, msg))]

\* a loop body that adds the count of every result that has one
CountRowsOfAnyResult(f, result) ==
    LET counted == [f EXCEPT !.total_affected_rows =
                                 IF result.affected_rows # None
                                 THEN @ + result.affected_rows[1] ELSE @]
    IN  IF result.success THEN [counted EXCEPT !.success_count = @ + 1]
        ELSE [counted EXCEPT !.error_count = @ + 1,
                             !.errors = Append(@, StatementError(f, result.error))]

\* the loop body after execute_query has returned result, when the display
\* callback (if any) returns
CountResult(f, result) ==
    IF result.success
    THEN [f EXCEPT !.success_count = @ + 1,
                   !.total_affected_rows =
                       IF result.affected_rows # None /\ result.affected_rows[1] >= 0
                       THEN @ + result.affected_rows[1] ELSE @]
    ELSE [f EXCEPT !.error_count = @ + 1,
                   !.errors = Append(@, StatementError(f, result.error))]

\* a loop that an exception of execute_query ends: no statement after it is run
AfterRaiseLeavesLoop(f, stmt, msg) ==
    [CountException(f, msg) EXCEPT
        !.i = Len(f.statements) + 1,
        !.trace = @ \o <<CallEvent(f, stmt), RaisedEvent(f)>>]

\* one iteration of the loop whose execute_query raised
AfterRaise(f, stmt, msg) ==
    [CountException(f, msg) EXCEPT
        !.i = @ + 1, !.trace = @ \o <<CallEvent(f, stmt), RaisedEvent(f)>>]

\* a loop that hands only the successful results to the display callback
AfterResultShowsSuccessOnly(f, stmt, result, cbRaises) ==
    LET shows == f.display_callback /\ result.success
        shown == IF shows THEN <<DisplayEvent(f, stmt, result)>> ELSE <<>>
        counted == IF shows /\ cbRaises
                   THEN CountException(f, Some("display callback raised"))
                   ELSE CountResult(f, result)
    IN  [counted EXCEPT
            !.i = @ + 1,
            !.trace = @ \o <<CallEvent(f, stmt), ReturnedEvent(f, result)>> \o shown]

\* one iteration of the loop whose execute_query returned result; cbRaises
\* says whether the display callback, if called, raises
AfterResult(f, stmt, result, cbRaises) ==
    LET shown == IF f.display_callback THEN <<DisplayEvent(f, stmt, result)>> ELSE <<>>
        counted == IF f.display_callback /\ cbRaises
                   THEN CountException(f, Some("display callback raised"))
                   ELSE CountResult(f, result)
    IN  [counted EXCEPT
            !.i = @ + 1,
            !.trace = @ \o <<CallEvent(f, stmt), ReturnedEvent(f, result)>> \o shown]

\* a summary that calls a script a success as soon as one statement succeeded
SummaryAnySuccess(f) ==
    QueryResult("SOURCE", f.success_count > 0, <<>>, None,
                IF f.total_affected_rows > 0 THEN Some(f.total_affected_rows) ELSE None,
                IF f.error_count > 0
                THEN Some([listed |-> SubSeq(f.errors, 1, Min(ErrorCap, Len(f.errors))),
                           more |-> IF Len(f.errors) > ErrorCap
                                    THEN Len(f.errors) - ErrorCap ELSE 0])
                ELSE None)

\* a summary that lists every error
SummaryListsAll(f) ==
    QueryResult("SOURCE", f.error_count = 0, <<>>, None,
                IF f.total_affected_rows > 0 THEN Some(f.total_affected_rows) ELSE None,
                IF f.error_count > 0 THEN Some([listed |-> f.errors, more |-> 0])
                ELSE None)

\* the summary _execute_script returns after the loop
Summary(f) ==
    QueryResult("SOURCE", f.error_count = 0, <<>>, None,
                IF f.total_affected_rows > 0 THEN Some(f.total_affected_rows) ELSE None,
                IF f.error_count > 0
                THEN Some([listed |-> SubSeq(f.errors, 1, Min(ErrorCap, Len(f.errors))),
                           more |-> IF Len(f.errors) > ErrorCap
                                    THEN Len(f.errors) - ErrorCap ELSE 0])
                ELSE None)

\* the display events a frame adds to the log of the call
Shown(f, depth, stmt, result) ==
    IF f.display_callback
    THEN <<[e |-> "display", depth |-> depth, pos |-> f.i, sql |-> stmt,
            success |-> result.success]>>
    ELSE <<>>

(***************************************************************************)
(* The script files and the SQL texts the model draws from.                *)
(***************************************************************************)
\* file a:  INSERT t; / SELECT 1;
scriptTwo ==
    <<"I", "N", "S", "E", "R", "T", " ", "t", ";", "\n", "S", "E", "L", "E", "C", "T",
      " ", "1", ";", "\n">>
\* file b:  CREATE t; / USE d; / INSERT t  (the last one unterminated)
scriptDdl ==
    <<"C", "R", "E", "A", "T", "E", " ", "t", ";", "\n", "U", "S", "E", " ", "d", ";",
      "\n", "I", "N", "S", "E", "R", "T", " ", "t">>
\* file c:  empty
scriptEmpty == <<>>
\* file e:  a comment, a blank line and a delimiter directive
scriptBlank ==
    <<"-", "-", " ", "c", "\n", "\n", "D", "E", "L", "I", "M", "I", "T", "E", "R", " ",
      "$", "$", "\n">>
\* file f:  SOURCE c; / SOURCE n; / SOURCE a;  (no file n exists)
scriptNested ==
    <<"S", "O", "U", "R", "C", "E", " ", "c", ";", "\n", "S", "O", "U", "R", "C", "E",
      " ", "n", ";", "\n", "S", "O", "U", "R", "C", "E", " ", "a", ";">>
\* file g:  SOURCE g; / SELECT 1\G  (it names itself)
scriptSelf ==
    <<"S", "O", "U", "R", "C", "E", " ", "g", ";", "\n", "S", "E", "L", "E", "C", "T",
      " ", "1", "\\", "G">>
\* SELECT 1
sqlSelect ==
    <<"S", "E", "L", "E", "C", "T", " ", "1">>
\* INSERT t
sqlInsert ==
    <<"I", "N", "S", "E", "R", "T", " ", "t">>
\* use d;
sqlUse ==
    <<"u", "s", "e", " ", "d", ";">>
\* DROP t\G
sqlDrop ==
    <<"D", "R", "O", "P", " ", "t", "\\", "G">>
\* a blank
sqlBlank ==
    <<" ">>
\* SOURCE a
sqlSourceA ==
    <<"S", "O", "U", "R", "C", "E", " ", "a">>
\* source b;
sqlSourceB ==
    <<"s", "o", "u", "r", "c", "e", " ", "b", ";">>
\* SOURCE c
sqlSourceC ==
    <<"S", "O", "U", "R", "C", "E", " ", "c">>
\* SOURCE e
sqlSourceE ==
    <<"S", "O", "U", "R", "C", "E", " ", "e">>
\* SOURCE f
sqlSourceF ==
    <<"S", "O", "U", "R", "C", "E", " ", "f">>
\* SOURCE g\G
sqlSourceG ==
    <<"S", "O", "U", "R", "C", "E", " ", "g", "\\", "G">>
\* SOURCE n
sqlSourceN ==
    <<"S", "O", "U", "R", "C", "E", " ", "n">>
\* SOURCE d
sqlSourceD ==
    <<"S", "O", "U", "R", "C", "E", " ", "d">>
\* SOURCE 'p'
sqlSourceP ==
    <<"S", "O", "U", "R", "C", "E", " ", "'", "p", "'">>
\* SOURCE;
sqlSourceBare ==
    <<"S", "O", "U", "R", "C", "E", ";">>

\* file h:  SELECT 1; / SOURCE k;   file k:  SOURCE h;  (each names the other)
scriptPing ==
    <<"S", "E", "L", "E", "C", "T", " ", "1", ";", "\n", "S", "O", "U", "R", "C", "E", " ", "k", ";">>
scriptPong ==
    <<"S", "O", "U", "R", "C", "E", " ", "h", ";">>
\* SOURCE h
sqlSourceH ==
    <<"S", "O", "U", "R", "C", "E", " ", "h">>

File(content) == [kind |-> "file", content |-> content]

\* the files SOURCE can name: d is a directory, and so is the empty path (the
\* working directory); p is unreadable; no other path exists
FileSystem ==
    (<<"a">> :> File(scriptTwo)) @@ (<<"b">> :> File(scriptDdl))
    @@ (<<"c">> :> File(scriptEmpty)) @@ (<<"e">> :> File(scriptBlank))
    @@ (<<"f">> :> File(scriptNested)) @@ (<<"g">> :> File(scriptSelf))
    @@ (<<"h">> :> File(scriptPing)) @@ (<<"k">> :> File(scriptPong))
    @@ (<<"d">> :> [kind |-> "dir", content |-> <<>>])
    @@ (<<>> :> [kind |-> "dir", content |-> <<>>])
    @@ (<<"p">> :> [kind |-> "denied", content |-> <<>>])

\* the paths the SOURCE commands and statements of the model name
Paths == DOMAIN FileSystem \cup {<<"n">>}

Statements == {sqlSelect, sqlInsert, sqlUse, sqlDrop, sqlBlank}
SourceCommands == {sqlSourceA, sqlSourceB, sqlSourceC, sqlSourceE, sqlSourceF,
                   sqlSourceG, sqlSourceN, sqlSourceD, sqlSourceP, sqlSourceBare}

\* the query type execute_query finds for the text it is given
ClassOf(text) == _classify_query(_clean_display_directives(text))

\* the running call of _execute_script and the statement its loop is at
Top == stack[Len(stack)]
Running == stack # <<>> /\ Top.i <= Len(Top.statements)
CurrentStmt == Strip(Top.statements[Top.i])
CurrentSql == _clean_display_directives(CurrentStmt)
ReplaceTop(f) == [stack EXCEPT ![Len(stack)] = f]

(***************************************************************************)
(* execute_query as called by the user of the service, and the steps of a  *)
(* running script.                                                         *)
(***************************************************************************)
\* execute_query on a text that is not a SOURCE command
ExecuteQueryBody(sqlIn, out) ==
    LET sql == _clean_display_directives(sqlIn)
        query_type == _classify_query(sql)
    IN  /\ Alive
        /\ stack = <<>>
        /\ query_type # "SOURCE"
        /\ IF ~_get_client_or_raise(active).ok
           THEN /\ ret' = Raised("execute_query", sqlIn, "DatabaseError",
                                 "No active database connection")
                /\ log' = <<>>
                /\ UNCHANGED currentDb
           ELSE LET r == RunOnClient(active, sql, query_type, out, currentDb, callbacks)
                IN  /\ ret' = Returned("execute_query", sqlIn, r.result)
                    /\ log' = r.events
                    /\ currentDb' = r.db
        /\ locked' = <<>>
        /\ UNCHANGED <<lastConnected, lock, threads, scripts, duck, active, config, connId, vectorStatus, callbacks, sourceCb, created,
                       closed, everActive, registered, stack>>

ExecuteQuery(sqlIn, out) == ExecuteQueryBody(sqlIn, out) /\ UNCHANGED lastCtx

\* execute_query on a SOURCE command: a result at once, or a script to run
ExecuteSourceBody(sqlIn) ==
    LET sql == _clean_display_directives(sqlIn)
        script == OpenScript(scripts, sql)
    IN  /\ Alive
        /\ stack = <<>>
        /\ _classify_query(sql) = "SOURCE"
        /\ log' = <<>>
        /\ IF script.kind = "result"
           THEN /\ ret' = Returned("execute_query", sqlIn, script.result)
                /\ UNCHANGED stack
           ELSE /\ ret' = InProgress("execute_query", sqlIn)
                /\ stack' = <<NewFrame(script.statements, sourceCb)>>
        /\ locked' = <<>>
        /\ UNCHANGED <<lastConnected, lock, threads, scripts, duck, active, config, connId, currentDb, vectorStatus, callbacks,
                       sourceCb, created, closed, everActive, registered>>

ExecuteSource(sqlIn) == ExecuteSourceBody(sqlIn) /\ UNCHANGED lastCtx

\* the loop body of _execute_script on a statement that is not a SOURCE command
ScriptStatement(out, cbRaises) ==
    /\ Running
    /\ _classify_query(CurrentSql) # "SOURCE"
    /\ cbRaises => Top.display_callback /\ active # NoClient
    /\ IF CurrentStmt = <<>>
       THEN /\ stack' = ReplaceTop([Top EXCEPT !.i = @ + 1])
            /\ UNCHANGED <<log, currentDb>>
       ELSE IF ~_get_client_or_raise(active).ok
       THEN /\ stack' = ReplaceTop(AfterRaise(Top, CurrentStmt,
                                              Some("No active database connection")))
            /\ UNCHANGED <<log, currentDb>>
       ELSE LET r == RunOnClient(active, CurrentSql, _classify_query(CurrentSql), out,
                                 currentDb, callbacks)
            IN  /\ stack' = ReplaceTop(AfterResult(Top, CurrentStmt, r.result, cbRaises))
                /\ log' = log \o r.events \o Shown(Top, Len(stack), CurrentStmt, r.result)
                /\ currentDb' = r.db
    /\ UNCHANGED <<locked, lastConnected, lastCtx, lock, threads, scripts, duck, active, config, connId, vectorStatus, callbacks, sourceCb, created,
                   closed, everActive, registered, ret>>

ScriptStatementStep ==
    /\ Running
    /\ \E out \in OutcomesFor(_classify_query(CurrentSql)), cbRaises \in BOOLEAN :
          ScriptStatement(out, cbRaises)

\* the loop body on a SOURCE statement whose file cannot be run: the nested
\* _execute_source_command returns a result at once
ScriptSourceResult(cbRaises) ==
    /\ Running
    /\ _classify_query(CurrentSql) = "SOURCE"
    /\ OpenScript(scripts, CurrentSql).kind = "result"
    /\ cbRaises => Top.display_callback
    /\ LET result == OpenScript(scripts, CurrentSql).result
       IN  /\ stack' = ReplaceTop(AfterResult(Top, CurrentStmt, result, cbRaises))
           /\ log' = log \o Shown(Top, Len(stack), CurrentStmt, result)
    /\ UNCHANGED <<locked, lastConnected, lastCtx, lock, threads, scripts, duck, active, config, connId, currentDb, vectorStatus, callbacks, sourceCb,
                   created, closed, everActive, registered, ret>>

\* the loop body on a SOURCE statement: execute_query enters
\* _execute_source_command and that a nested _execute_script
ScriptSourceEnter ==
    /\ Running
    /\ _classify_query(CurrentSql) = "SOURCE"
    /\ OpenScript(scripts, CurrentSql).kind = "script"
    /\ Len(stack) < MaxDepth
    /\ stack' = Append(stack, NewFrame(OpenScript(scripts, CurrentSql).statements, sourceCb))
    /\ UNCHANGED <<locked, lastConnected, lastCtx, lock, threads, scripts, duck, active, config, connId, currentDb, vectorStatus, callbacks, sourceCb,
                   created, closed, everActive, registered, log, ret>>

\* a recursion limit whose RecursionError no except clause catches: it ends
\* every running script and the call of execute_query
SourceTooDeepEscapes(where, cbRaises) ==
    /\ Running
    /\ _classify_query(CurrentSql) = "SOURCE"
    /\ OpenScript(scripts, CurrentSql).kind = "script"
    /\ Len(stack) >= MaxDepth
    /\ ~cbRaises /\ where = "in_source_command"
    /\ stack' = <<>>
    /\ ret' = Raised("execute_query", ret.arg, "RecursionError", "RecursionError")
    /\ UNCHANGED <<locked, lastConnected, lastCtx, lock, threads, scripts, duck, active,
                   config, connId, currentDb, vectorStatus, callbacks, sourceCb, created,
                   closed, everActive, registered, log>>

\* the same at the interpreter's recursion limit: RecursionError is raised
\* inside the nested _execute_source_command, whose except clause turns it
\* into a failed result, or before it, where the loop's except clause counts it
ScriptSourceTooDeep(where, cbRaises) ==
    /\ Running
    /\ _classify_query(CurrentSql) = "SOURCE"
    /\ OpenScript(scripts, CurrentSql).kind = "script"
    /\ Len(stack) >= MaxDepth
    /\ cbRaises => Top.display_callback /\ where = "in_source_command"
    /\ IF where = "in_source_command"
       THEN LET result == QueryResult("SOURCE", FALSE, <<>>, None, None,
                                      Some("Unexpected error: RecursionError"))
            IN  /\ stack' = ReplaceTop(AfterResult(Top, CurrentStmt, result, cbRaises))
                /\ log' = log \o Shown(Top, Len(stack), CurrentStmt, result)
       ELSE /\ stack' = ReplaceTop(AfterRaise(Top, CurrentStmt, Some("RecursionError")))
            /\ UNCHANGED log
    /\ UNCHANGED <<locked, lastConnected, lastCtx, lock, threads, scripts, duck, active, config, connId, currentDb, vectorStatus, callbacks, sourceCb,
                   created, closed, everActive, registered, ret>>

\* _execute_script returns its summary: to the caller of execute_query, or to
\* the loop of the script whose SOURCE statement started it
ScriptReturnBody(cbRaises) ==
    /\ stack # <<>>
    /\ ~Running
    /\ IF Len(stack) = 1
       THEN /\ ~cbRaises
            /\ stack' = <<>>
            /\ ret' = [Returned("execute_query", ret.arg, Summary(Top)) EXCEPT
                          !.script = Some(Top)]
            /\ UNCHANGED log
       ELSE LET parent == stack[Len(stack) - 1]
                stmt == Strip(parent.statements[parent.i])
            IN  /\ cbRaises => parent.display_callback
                /\ stack' = Append(SubSeq(stack, 1, Len(stack) - 2),
                                   AfterResult(parent, stmt, Summary(Top), cbRaises))
                /\ log' = log \o Shown(parent, Len(stack) - 1, stmt, Summary(Top))
                /\ UNCHANGED ret
    /\ UNCHANGED <<locked, lastConnected, lock, threads, scripts, duck, active, config, connId, currentDb, vectorStatus, callbacks, sourceCb,
                   created, closed, everActive, registered>>

ScriptReturn(cbRaises) == ScriptReturnBody(cbRaises) /\ UNCHANGED lastCtx

(***************************************************************************)
(* The last query context, and the shell that saves it.                    *)
(***************************************************************************)
\* the default of the parameter max_rows
DefaultMaxRows == 100

\* the dataclass LastQueryContext (the execution time is left out, as it is
\* in QueryResult)
LastQueryContext(sql, status, columns, rows, row_count, affected_rows, error_message) ==
    [sql |-> sql, status |-> status, columns |-> columns, rows |-> rows,
     row_count |-> row_count, affected_rows |-> affected_rows,
     error_message |-> error_message]

\* a set_last_query_context that keeps the rows of the context before it when
\* it is given none
SetKeepsEarlierRows(sql, status, columns, rows, affected_rows, error_message, max_rows) ==
    LET earlier == IF lastCtx = None THEN None ELSE lastCtx[1].rows
    IN  LastQueryContext(sql, status, columns,
                         IF rows # <<>> THEN Some(rows) ELSE earlier,
                         Len(rows), affected_rows, error_message)

\* a set_last_query_context that records as row_count the number of rows it
\* stored
SetCountsStoredRows(sql, status, columns, rows, affected_rows, error_message, max_rows) ==
    LET stored_rows == IF Len(rows) > max_rows THEN SubSeq(rows, 1, max_rows) ELSE rows
    IN  LastQueryContext(sql, status, columns,
                         IF rows # <<>> THEN Some(stored_rows) ELSE None,
                         Len(stored_rows), affected_rows, error_message)

\* the context set_last_query_context stores: at most max_rows of the rows,
\* and the number of all of them
set_last_query_context(sql, status, columns, rows, affected_rows, error_message, max_rows) ==
    LET stored_rows == IF rows # <<>>
                       THEN Some(IF Len(rows) > max_rows THEN SubSeq(rows, 1, max_rows)
                                 ELSE rows)
                       ELSE None
        row_count == IF rows # <<>> THEN Len(rows) ELSE 0
    IN  LastQueryContext(sql, status, columns, stored_rows, row_count, affected_rows,
                         error_message)

GetLastQueryContext ==
    /\ Alive
    /\ stack = <<>>
    /\ ret' = Returned("get_last_query_context", None, lastCtx)
    /\ log' = <<>>
    /\ locked' = <<>>
    /\ UNCHANGED <<lastConnected, lastCtx, lock, threads, scripts, duck, active, config, connId,
                   currentDb, vectorStatus, callbacks, sourceCb, created, closed,
                   everActive, registered, stack>>

ConsumeLastQueryContext ==
    /\ Alive
    /\ stack = <<>>
    /\ ret' = Returned("consume_last_query_context", None, lastCtx)
    /\ lastCtx' = None
    /\ log' = <<>>
    /\ locked' = <<>>
    /\ UNCHANGED <<lastConnected, lock, threads, scripts, duck, active, config, connId,
                   currentDb, vectorStatus, callbacks, sourceCb, created, closed,
                   everActive, registered, stack>>

ClearLastQueryContext ==
    /\ Alive
    /\ stack = <<>>
    /\ ret' = Returned("clear_last_query_context", None, None)
    /\ lastCtx' = None
    /\ log' = <<>>
    /\ locked' = <<>>
    /\ UNCHANGED <<lastConnected, lock, threads, scripts, duck, active, config, connId,
                   currentDb, vectorStatus, callbacks, sourceCb, created, closed,
                   everActive, registered, stack>>

\* what the shell saves after execute_query(sql) has ended as r: the result
\* it returned, or the error it raised
_save_query_context_and_history(sql, r) ==
    IF r.status = "raised"
    THEN set_last_query_context(sql, "ERROR", None, <<>>, None, Some(r.value.msg),
                                DefaultMaxRows)
    ELSE set_last_query_context(sql, IF r.value.success THEN "SUCCESS" ELSE "ERROR",
                                r.value.columns, r.value.rows, r.value.affected_rows,
                                r.value.error, DefaultMaxRows)

\* the shell runs a statement: execute_query, then the context is saved
ReplExecuteSql(sqlIn, out) ==
    /\ ExecuteQueryBody(sqlIn, out)
    /\ lastCtx' = Some(_save_query_context_and_history(sqlIn, ret'))

\* the shell runs a SOURCE command: the context is saved when execute_query
\* has returned, at once or at the end of the script
ReplExecuteSource(sqlIn) ==
    /\ ExecuteSourceBody(sqlIn)
    /\ lastCtx' = IF ret'.status = "running" THEN lastCtx
                  ELSE Some(_save_query_context_and_history(sqlIn, ret'))

ReplScriptReturn(cbRaises) ==
    /\ ScriptReturnBody(cbRaises)
    /\ lastCtx' = IF stack' # <<>> THEN lastCtx
                  ELSE Some(_save_query_context_and_history(ret'.arg, ret'))

(***************************************************************************)
(* The transaction methods of DuckDBClient.                                *)
(***************************************************************************)
\* the fields __init__ sets
DuckDBClient == [_transaction_state |-> "NOT_IN_TRANSACTION", _autocommit |-> TRUE]

\* the calls made on one client in a behaviour
MaxDuckCalls == 3

\* a get_autocommit that returns the flag set_autocommit has stored
GetAutocommitStored(c) == c._autocommit

duckdb_get_transaction_state(c) == "NOT_IN_TRANSACTION"
duckdb_get_autocommit(c) == TRUE
duckdb_begin_transaction(c) == c
duckdb_commit_transaction(c) == c
duckdb_rollback_transaction(c) == c
duckdb_set_autocommit(c, enabled) == [c EXCEPT !._autocommit = enabled]

DuckEvent(method, arg) == [e |-> "duckdb", method |-> method, arg |-> arg]

\* the method is called on the client, which is c afterwards, and returns value
DuckCall(method, arg, c, value) ==
    /\ Alive
    /\ stack = <<>>
    /\ Len(log) < MaxDuckCalls
    /\ duck' = c
    /\ log' = Append(log, DuckEvent(method, arg))
    /\ ret' = Returned(method, arg, value)
    /\ UNCHANGED <<active, config, connId, currentDb, vectorStatus, callbacks, sourceCb,
                   created, closed, everActive, registered, stack, scripts, locked,
                   lastConnected, lastCtx, lock, threads>>

DuckBeginTransaction ==
    DuckCall("duckdb.begin_transaction", None, duckdb_begin_transaction(duck), None)
DuckCommitTransaction ==
    DuckCall("duckdb.commit_transaction", None, duckdb_commit_transaction(duck), None)
DuckRollbackTransaction ==
    DuckCall("duckdb.rollback_transaction", None, duckdb_rollback_transaction(duck), None)
DuckSetAutocommit(enabled) ==
    DuckCall("duckdb.set_autocommit", Some(enabled), duckdb_set_autocommit(duck, enabled), None)
DuckGetTransactionState ==
    DuckCall("duckdb.get_transaction_state", None, duck, duckdb_get_transaction_state(duck))
DuckGetAutocommit ==
    DuckCall("duckdb.get_autocommit", None, duck, duckdb_get_autocommit(duck))

(***************************************************************************)
(* The service called by several threads.  A call that waits for the       *)
(* client takes two steps: up to the call on the client, and from its      *)
(* return on.  _lock is held from the entry of a with block to its exit;   *)
(* in these steps log holds what the step itself did.                      *)
(***************************************************************************)
\* thread t has come to the call at of the client, inside operation op
Enter(t, op, at, client, arg) ==
    [threads EXCEPT ![t] = [op |-> op, at |-> at, client |-> client, arg |-> arg,
                            overlapped |-> {}]]

\* thread t has returned from the operation what; the threads that wait in
\* execute_query for the client have seen it complete meanwhile
Leave(t, what) ==
    [u \in Threads |->
        IF u = t THEN Idle
        ELSE IF threads[u].op = "execute_query"
        THEN [threads[u] EXCEPT !.overlapped = @ \cup {what}]
        ELSE threads[u]]

\* the lock when thread t leaves the service
Release(t) == IF lock = t THEN NoThread ELSE lock

\* an execute_query that keeps the lock while the client runs the statement
HeldThroughQuery(t) == t

\* the holder of the lock once get_active_connection has returned the client
\* to execute_query: its with block is left
HeldAfterGetClient(t) == NoThread

\* a connect that keeps the lock after it has installed its client
HeldThroughConnect(t) == t

\* the holder of the lock once connect has left the with block of the swap
HeldAfterSwap(t) == NoThread

\* execute_query up to client.execute(sql)
TExecuteQueryCall(t, sqlIn) ==
    /\ Alive
    /\ stack = <<>>
    /\ threads[t] = Idle
    /\ lock = NoThread
    /\ ClassOf(sqlIn) # "SOURCE"
    /\ IF ~_get_client_or_raise(active).ok
       THEN /\ ret' = Raised("execute_query", sqlIn, "DatabaseError",
                             "No active database connection")
            /\ log' = <<>>
            /\ locked' = <<>>
            /\ UNCHANGED <<lock, threads>>
       ELSE /\ threads' = Enter(t, "execute_query", "client.execute", active, sqlIn)
            /\ lock' = HeldAfterGetClient(t)
            /\ UNCHANGED <<ret, log, locked>>
    /\ UNCHANGED <<lastConnected, lastCtx, scripts, duck, active, config, connId, currentDb,
                   vectorStatus, callbacks, sourceCb, created, closed, everActive,
                   registered, stack>>

\* an execute_query that reads self._active_connection again for each call it
\* makes on the client
TExecuteQueryReturnOnActive(t, out) ==
    /\ threads[t].op = "execute_query"
    /\ threads[t].at = "client.execute"
    /\ LET sql == _clean_display_directives(threads[t].arg)
           query_type == _classify_query(sql)
           r == RunOnClient(active, sql, query_type, out, currentDb, callbacks)
       IN  /\ out \in OutcomesFor(query_type)
           /\ ret' = Returned("execute_query", threads[t].arg, r.result)
           /\ log' = r.events
           /\ currentDb' = r.db
    /\ locked' = <<>>
    /\ lock' = Release(t)
    /\ threads' = Leave(t, "execute_query")
    /\ UNCHANGED <<lastConnected, lastCtx, scripts, duck, active, config, connId,
                   vectorStatus, callbacks, sourceCb, created, closed, everActive,
                   registered, stack>>

\* execute_query from the return of client.execute(sql) on
TExecuteQueryReturn(t, out) ==
    /\ threads[t].op = "execute_query"
    /\ threads[t].at = "client.execute"
    /\ LET sql == _clean_display_directives(threads[t].arg)
           query_type == _classify_query(sql)
           r == RunOnClient(threads[t].client, sql, query_type, out, currentDb, callbacks)
       IN  /\ out \in OutcomesFor(query_type)
           /\ ret' = Returned("execute_query", threads[t].arg, r.result)
           /\ log' = r.events
           /\ currentDb' = r.db
    /\ locked' = <<>>
    /\ lock' = Release(t)
    /\ threads' = Leave(t, "execute_query")
    /\ UNCHANGED <<lastConnected, lastCtx, scripts, duck, active, config, connId,
                   vectorStatus, callbacks, sourceCb, created, closed, everActive,
                   registered, stack>>

\* disconnect up to client.close(), inside its with block
TDisconnectCall(t) ==
    /\ Alive
    /\ stack = <<>>
    /\ threads[t] = Idle
    /\ lock = NoThread
    /\ IF active = NoClient
       THEN /\ DisconnectBody("disconnect", FALSE)
            /\ threads' = Leave(t, "disconnect")
            /\ UNCHANGED lock
       ELSE /\ lock' = t
            /\ threads' = Enter(t, "disconnect", "client.close", active, None)
            /\ UNCHANGED <<lastConnected, lastCtx, scripts, duck, active, config, connId, currentDb,
                           vectorStatus, callbacks, sourceCb, created, closed, everActive,
                           registered, stack, log, ret, locked>>

\* disconnect from the return of client.close() on
TDisconnectReturn(t, closeRaises) ==
    /\ threads[t].op = "disconnect"
    /\ threads[t].at = "client.close"
    /\ DisconnectBody("disconnect", closeRaises)
    /\ lock' = Release(t)
    /\ threads' = Leave(t, "disconnect")

\* get_connection_info up to client.get_transaction_state(), inside its with block
TGetInfoCall(t) ==
    /\ Alive
    /\ stack = <<>>
    /\ threads[t] = Idle
    /\ lock = NoThread
    /\ IF active = NoClient \/ config = None
       THEN /\ GetConnectionInfoBody("both")
            /\ threads' = Leave(t, "get_connection_info")
            /\ UNCHANGED lock
       ELSE /\ lock' = t
            /\ threads' = Enter(t, "get_connection_info", "client.get_transaction_state",
                                active, None)
            /\ UNCHANGED <<lastConnected, lastCtx, scripts, duck, active, config, connId, currentDb,
                           vectorStatus, callbacks, sourceCb, created, closed, everActive,
                           registered, stack, log, ret, locked>>

\* get_connection_info from the return of the client on
TGetInfoReturn(t, tx) ==
    /\ threads[t].op = "get_connection_info"
    /\ threads[t].at = "client.get_transaction_state"
    /\ GetConnectionInfoBody(tx)
    /\ lock' = Release(t)
    /\ threads' = Leave(t, "get_connection_info")

\* the assignments of connect inside its with block
Install(client, cfg) ==
    /\ active' = client
    /\ config' = Some(cfg)
    /\ connId' = Some(ConnectionId(cfg))
    /\ everActive' = everActive \cup {client}

\* connect, with nobody cancelling: the client is built; without an active
\* client it is installed and the call goes on to SELECT DATABASE() and the
\* probe, otherwise the call is at close() of the active client
TConnectCall(t, cfg) ==
    /\ Alive
    /\ stack = <<>>
    /\ threads[t] = Idle
    /\ lock = NoThread
    /\ ~NeedsPrompt(cfg)
    /\ created < MaxClients
    /\ created' = created + 1
    /\ IF active = NoClient
       THEN /\ Install(created + 1, cfg)
            /\ lock' = HeldAfterSwap(t)
            /\ threads' = Enter(t, "connect", "client.execute", created + 1, cfg)
            /\ log' = <<InstallEvent(created + 1)>>
            /\ locked' = <<>>
       ELSE /\ lock' = t
            /\ threads' = Enter(t, "connect", "client.close", created + 1, cfg)
            /\ UNCHANGED <<active, config, connId, everActive, log, locked>>
    /\ UNCHANGED <<lastConnected, lastCtx, scripts, duck, currentDb, vectorStatus, callbacks,
                   sourceCb, closed, registered, stack, ret>>

\* connect from the return of close() of the previous client to the end of
\* the with block
TConnectSwap(t, closeRaises) ==
    /\ threads[t].op = "connect"
    /\ threads[t].at = "client.close"
    /\ closed' = closed \cup ClosedBy(ClosePrevious(active))
    /\ Install(threads[t].client, threads[t].arg)
    /\ log' = ClosePrevious(active) \o <<InstallEvent(threads[t].client)>>
    /\ locked' = <<LockedCall("close", active, Exc(closeRaises))>>
    /\ lock' = HeldAfterSwap(t)
    /\ threads' = [threads EXCEPT ![t].at = "client.execute"]
    /\ UNCHANGED <<lastConnected, lastCtx, scripts, duck, currentDb, vectorStatus, callbacks,
                   sourceCb, created, registered, stack, ret>>

\* connect from SELECT DATABASE() on: the probe looks at the client that is
\* active by then, and the id returned is the one stored by then
TConnectReturn(t, dbinit, probe) ==
    /\ threads[t].op = "connect"
    /\ threads[t].at = "client.execute"
    /\ threads[t].arg.database # None => dbinit = "null"
    /\ active = NoClient => probe = "raise"
    /\ currentDb' = InitialDatabase(threads[t].arg, dbinit)
    /\ vectorStatus' = _detect_vector_capability(active, probe)
    /\ log' = (IF threads[t].arg.database = None
               THEN <<ClientExecute(threads[t].client, sqlSelectDatabase, dbinit = "raise")>>
               ELSE <<>>)
              \o (IF active = NoClient THEN <<>>
                  ELSE <<ClientExecute(active, sqlShowVidx, probe = "raise")>>)
              \o _notify_schema_change(callbacks)
    /\ locked' = <<>>
    /\ ret' = Returned("connect", threads[t].arg, IF connId = None THEN None ELSE connId[1])
    /\ lastConnected' = Some(threads[t].arg)
    /\ lock' = Release(t)
    /\ threads' = Leave(t, "connect")
    /\ UNCHANGED <<lastCtx, scripts, duck, active, config, connId, callbacks, sourceCb, created,
                   closed, everActive, registered, stack>>

(***************************************************************************)
(* The specification.                                                      *)
(***************************************************************************)
\* the service after __init__; cbs: the callbacks in _schema_change_callbacks
\* the fields of a new service whose callback list is cbs
Fields(cbs) ==
    /\ active = NoClient
    /\ config = None
    /\ connId = None
    /\ currentDb = None
    /\ vectorStatus = "UNKNOWN"
    /\ callbacks = cbs
    /\ sourceCb = FALSE
    /\ created = 0
    /\ closed = {}
    /\ everActive = {}
    /\ registered = Range(cbs)
    /\ stack = <<>>
    /\ log = <<>>
    /\ scripts = [path \in Paths |-> LoadScript(FileSystem, path)]
    /\ locked = <<>>
    /\ lastConnected = None
    /\ lastCtx = None
    /\ lock = NoThread
    /\ threads = [t \in Threads |-> Idle]
    /\ duck = DuckDBClient

InitWith(cbs) == Fields(cbs) /\ ret = Returned("__init__", None, None)

Init == InitWith(<<>>)

\* the inputs of connect that make a difference on the path how
DbInitFor(cfg, how) ==
    IF cfg.database = None /\ how \in {"ok", "cancel_probe", "cancel_notify"}
    THEN DbInitOutcomes ELSE {"null"}
ProbeFor(how) == IF how \in {"ok", "cancel_notify"} THEN ProbeOutcomes ELSE {"raise"}

Next ==
    \/ \E cfg \in Configs, how \in ConnectPaths :
          \E dbinit \in DbInitFor(cfg, how), probe \in ProbeFor(how) :
             Connect(cfg, how, dbinit, probe)
    \/ \E how \in ConnectPaths :
          \E dbinit \in DbInitOutcomes, probe \in ProbeFor(how) :
             Reconnect(how, dbinit, probe)
    \/ Disconnect
    \/ Exit
    \/ \E closeRaises \in BOOLEAN : Del(closeRaises)
    \/ \E probe \in ProbeOutcomes : DetectVectorCapability(probe)
    \/ HasVectorCapability
    \/ \E fails \in BOOLEAN : ChangeDatabase(dbApp, fails)
    \/ \E tx \in TxOutcomes : GetConnectionInfo(tx)
    \/ \E cb \in Callbacks : RegisterCallback(cb)
    \/ \E cb \in Callbacks : UnregisterCallback(cb)
    \/ \E sql \in Statements :
          \E out \in OutcomesFor(ClassOf(sql)) :
             ExecuteQuery(sql, out)

Spec == Init /\ [][Next]_vars

\* the script engine on a service that is connected or not
NextSource ==
    \/ Connect(cfgFull, "ok", "null", "OFF")
    \/ Disconnect
    \/ \E on \in BOOLEAN : SetSourceDisplayCallback(on)
    \/ \E sql \in Statements :
          \E out \in OutcomesFor(ClassOf(sql)) :
             ExecuteQuery(sql, out)
    \/ \E sql \in SourceCommands : ExecuteSource(sql)
    \/ ScriptStatementStep
    \/ \E cbRaises \in BOOLEAN : ScriptSourceResult(cbRaises)
    \/ ScriptSourceEnter
    \/ \E where \in {"in_source_command", "in_execute_query"}, cbRaises \in BOOLEAN :
          ScriptSourceTooDeep(where, cbRaises)
    \/ \E cbRaises \in BOOLEAN : ScriptReturn(cbRaises)

SpecSource == Init /\ [][NextSource]_vars

\* the lists of callbacks a notification can find: every order of at most
\* MaxCallbacks callbacks, of which one kind raises
CallbackLists ==
    UNION {[1..n -> Callbacks \cup {cbFails}] : n \in 0..MaxCallbacks}

InitNotify == \E cbs \in CallbackLists : InitWith(cbs)

\* the operations that notify, on a service whose callback list is cbs
NextNotify ==
    \/ \E cfg \in Configs, how \in {"ok", "cancel_notify"} :
          \E dbinit \in {"db"}, probe \in {"OFF"} :
             Connect(cfg, how, dbinit, probe)
    \/ Disconnect
    \/ \E fails \in BOOLEAN : ChangeDatabase(dbApp, fails)
    \/ \E cb \in Callbacks \cup {cbFails} : UnregisterCallback(cb)
    \/ \E sql \in Statements :
          \E out \in OutcomesFor(ClassOf(sql)) :
             ExecuteQuery(sql, out)

SpecNotify == InitNotify /\ [][NextNotify]_vars

\* two threads in execute_query, get_connection_info, disconnect and connect
NextThreads ==
    \/ \E t \in Threads, sql \in {sqlSelect, sqlUse} : TExecuteQueryCall(t, sql)
    \/ \E t \in Threads, out \in ClientOutcomes : TExecuteQueryReturn(t, out)
    \/ \E t \in Threads : TDisconnectCall(t)
    \/ \E t \in Threads, closeRaises \in BOOLEAN : TDisconnectReturn(t, closeRaises)
    \/ \E t \in Threads : TGetInfoCall(t)
    \/ \E t \in Threads, tx \in TxOutcomes : TGetInfoReturn(t, tx)
    \/ \E t \in Threads : TConnectCall(t, cfgFull)
    \/ \E t \in Threads, closeRaises \in BOOLEAN : TConnectSwap(t, closeRaises)
    \/ \E t \in Threads, dbinit \in {"null"}, probe \in {"raise", "OFF"} :
          TConnectReturn(t, dbinit, probe)

SpecThreads == Init /\ [][NextThreads]_vars

\* the shell as the caller of execute_query, and the readers of the context
NextContext ==
    \/ Connect(cfgFull, "ok", "null", "OFF")
    \/ Disconnect
    \/ \E sql \in {sqlSelect, sqlInsert, sqlUse} :
          \E out \in OutcomesFor(ClassOf(sql)) :
             ReplExecuteSql(sql, out)
    \/ \E sql \in {sqlSourceA, sqlSourceN, sqlSourceF} : ReplExecuteSource(sql)
    \/ ScriptStatementStep
    \/ \E cbRaises \in BOOLEAN : ScriptSourceResult(cbRaises)
    \/ ScriptSourceEnter
    \/ \E cbRaises \in BOOLEAN : ReplScriptReturn(cbRaises)
    \/ GetLastQueryContext
    \/ ConsumeLastQueryContext
    \/ ClearLastQueryContext

SpecContext == Init /\ [][NextContext]_vars

\* the transaction operations on a service that is connected or not
NextTx ==
    \/ \E cfg \in Configs :
          \E dbinit \in DbInitFor(cfg, "ok"), probe \in ProbeFor("ok") :
             Connect(cfg, "ok", dbinit, probe)
    \/ Disconnect
    \/ \E op \in TransactionOps :
          \E arg \in TransactionArgs(op), fails \in BOOLEAN :
             TransactionOp(op, arg, fails)
    \/ \E tx \in TxOutcomes : GetConnectionInfo(tx)

SpecTx == Init /\ [][NextTx]_vars

\* one DuckDBClient and the calls of its transaction methods
NextDuck ==
    \/ DuckBeginTransaction
    \/ DuckCommitTransaction
    \/ DuckRollbackTransaction
    \/ \E enabled \in BOOLEAN : DuckSetAutocommit(enabled)
    \/ DuckGetTransactionState
    \/ DuckGetAutocommit

SpecDuck == Init /\ [][NextDuck]_vars

(***************************************************************************)
(* Properties of the script engine, checked under SpecSource.              *)
(***************************************************************************)
\* the calls of _execute_script that are running, and the finished one whose
\* summary the last execute_query returned
Frames ==
    {stack[d] : d \in 1..Len(stack)}
    \cup (IF ret.script # None THEN {ret.script[1]} ELSE {})

IsCall(ev) == ev.e = "execute_query"
IsDisplay(ev) == ev.e = "display"
CallsOf(f) == SelectSeq(f.trace, IsCall)
DisplaysOf(f) == SelectSeq(f.trace, IsDisplay)

\* statement k of f failed: execute_query raised on it or returned a failure
FailedAt(f, k) ==
    \E j \in 1..Len(f.trace) :
        /\ f.trace[j].pos = k
        /\ \/ f.trace[j].e = "raised"
           \/ f.trace[j].e = "returned" /\ ~f.trace[j].result.success

\* the last call of the service was execute_query on a SOURCE command
SourceCalled ==
    /\ ret.op = "execute_query"
    /\ ClassOf(ret.arg) = "SOURCE"

\* C1: in every run of a script, the statements handed to execute_query so
\* far are the first statements the splitter produced, each exactly once and
\* in file order, whatever the earlier ones raised or returned; when the
\* script has returned, that is all of its statements.
C1_EveryStatementOnceInOrder ==
    \A f \in Frames :
        LET calls == CallsOf(f)
        IN  /\ Len(calls) = f.i - 1
            /\ \A k \in 1..Len(calls) :
                  calls[k].pos = k /\ calls[k].sql = Strip(f.statements[k])
            /\ ret.script = Some(f) => Len(calls) = Len(f.statements)

\* a script has returned in which a statement failed and the one after it
\* was executed all the same
C1_FailureThenNextExecuted ==
    /\ ret.script # None
    /\ LET f == ret.script[1]
       IN  \E k \in 1..(Len(f.statements) - 1) :
              /\ FailedAt(f, k)
              /\ \E j \in 1..Len(f.trace) : IsCall(f.trace[j]) /\ f.trace[j].pos = k + 1

\* C2 (as the code has it): with a display callback set, the callback is
\* invoked once for every statement on which execute_query returned a result,
\* with that statement and that result, right after the return and so before
\* the next statement is executed, in statement order; a statement on which
\* execute_query raised gets no invocation.  With a client active
\* execute_query returns on every statement that is not a SOURCE command, so
\* each of those is displayed (a SOURCE statement is not when the nesting of
\* scripts has reached the recursion limit).  Without a callback nothing is
\* displayed.
C2_OneDisplayPerReturnedResult ==
    \A f \in Frames :
        LET t == f.trace
            shown == DisplaysOf(f)
        IN  IF f.display_callback
            THEN /\ \A j \in 1..Len(t) :
                       t[j].e = "returned" =>
                           /\ j < Len(t)
                           /\ t[j + 1].e = "display"
                           /\ t[j + 1].pos = t[j].pos
                           /\ t[j + 1].result = t[j].result
                           /\ t[j + 1].sql = Strip(f.statements[t[j].pos])
                 /\ \A j \in 1..Len(t) :
                       t[j].e = "display" => j > 1 /\ t[j - 1].e = "returned"
                 /\ \A k \in 1..(Len(shown) - 1) : shown[k].pos < shown[k + 1].pos
                 /\ active # NoClient =>
                       \A k \in 1..(f.i - 1) :
                           ClassOf(f.statements[k]) # "SOURCE" =>
                               \E j \in 1..Len(shown) : shown[j].pos = k
            ELSE shown = <<>>

\* a script of several statements has returned, with a callback set: every
\* statement was displayed, one of them with a failed result
C2_AllDisplayedWithFailure ==
    /\ ret.script # None
    /\ LET f == ret.script[1]
           shown == DisplaysOf(f)
       IN  /\ f.display_callback
           /\ Len(f.statements) >= 2
           /\ Len(shown) = Len(f.statements)
           /\ \E k \in 1..Len(shown) : ~shown[k].result.success

\* C2 as stated: a script of n statements run with a display callback causes
\* exactly n invocations, one per statement, in statement order.
C2_ExactlyNDisplays ==
    ret.script # None /\ ret.script[1].display_callback =>
        LET f == ret.script[1]
            shown == DisplaysOf(f)
        IN  /\ Len(shown) = Len(f.statements)
            /\ \A k \in 1..Len(shown) : shown[k].pos = k

\* C3: the summary has success TRUE exactly when no statement was recorded
\* as failed, and the statements counted as succeeded and as failed are
\* together the statements the splitter produced (so far, while the loop runs).
C3_SummaryCounts ==
    /\ \A f \in Frames :
          /\ f.success_count + f.error_count = f.i - 1
          /\ Len(f.errors) = f.error_count
    /\ ret.script # None =>
          LET f == ret.script[1]
          IN  /\ ret.value.success = (f.errors = <<>>)
              /\ f.success_count + f.error_count = Len(f.statements)
              /\ ret.value.success => \A k \in 1..Len(f.statements) : ~FailedAt(f, k)

\* a script has returned with statements of both kinds: the summary says failed
C3_MixedScriptFails ==
    /\ ret.script # None
    /\ ret.script[1].success_count >= 1
    /\ ret.script[1].error_count >= 1
    /\ ~ret.value.success

\* C4 (as the code has it): execute_query, called by the user of the service,
\* returns a QueryResult whenever a client is active or the text is a SOURCE
\* command; a failure of the backend on the statement is then a result with
\* success FALSE and the error set.  With no active client it raises
\* DatabaseError on every text that is not a SOURCE command.
C4_RaisesOnlyWithoutClient ==
    ret.op = "execute_query" =>
        LET source == ClassOf(ret.arg) = "SOURCE"
        IN  /\ ret.status = "raised" <=> active = NoClient /\ ~source
            /\ ret.status = "raised" =>
                  ret.value = [exc |-> "DatabaseError",
                               msg |-> "No active database connection"]
            /\ ret.status = "returned" /\ ~source /\ log[1].raised =>
                  ~ret.value.success /\ ret.value.error # None
            /\ ret.status = "returned" /\ ~source /\ ~log[1].raised =>
                  ret.value.success /\ ret.value.error = None

\* the backend has raised on a statement and execute_query has returned
C4_BackendFailureReturned ==
    /\ ret.op = "execute_query"
    /\ ret.status = "returned"
    /\ ClassOf(ret.arg) # "SOURCE"
    /\ active # NoClient
    /\ log[1].raised
    /\ ~ret.value.success

\* C4 as stated: execute_query never raises, whatever the text and the state
\* of the session.
C4_NeverRaises == ret.op = "execute_query" => ret.status # "raised"

\* the SOURCE command sql names no readable file: its path does not parse, or
\* the path is missing, a directory or unreadable
FileLevelFailure(sql) ==
    LET parsed == _parse_source_path(_clean_display_directives(sql))
    IN  \/ ~parsed.ok
        \/ parsed.value \notin DOMAIN FileSystem
        \/ FileSystem[parsed.value].kind # "file"

EmptyScript(sql) ==
    LET parsed == _parse_source_path(_clean_display_directives(sql))
    IN  /\ parsed.ok
        /\ parsed.value \in DOMAIN FileSystem
        /\ FileSystem[parsed.value].kind = "file"
        /\ _split_sql_statements(FileSystem[parsed.value].content) = <<>>

\* C6: a SOURCE command on a script without statements returns success TRUE,
\* no rows and the error text "No statements found in script"; nothing is
\* executed on the client and the display callback is not invoked.
C6_EmptyScriptSucceeds ==
    SourceCalled /\ EmptyScript(ret.arg) =>
        /\ ret.status = "returned"
        /\ stack = <<>> /\ ret.script = None
        /\ log = <<>>
        /\ ret.value.query_type = "SOURCE"
        /\ ret.value.success
        /\ ret.value.rows = <<>>
        /\ ret.value.error = Some("No statements found in script")

\* SOURCE on a file of a comment, a blank line and a DELIMITER directive has
\* returned, with a client active and a callback set
C6_CommentsOnlyScript ==
    /\ SourceCalled /\ EmptyScript(ret.arg)
    /\ ret.status = "returned"
    /\ active # NoClient /\ sourceCb
    /\ FileSystem[_parse_source_path(_clean_display_directives(ret.arg)).value].content # <<>>

\* C7 as stated: a SOURCE statement inside a script recurses no further, so no
\* script ever runs inside another one.
C7_NoNestedScript == Len(stack) <= 1

(***************************************************************************)
(* Properties of the connection lifecycle and of the schema-change         *)
(* callbacks, checked under Spec.                                          *)
(***************************************************************************)
\* every client that was ever the active one and is not it now has been closed
FormerClientsClosed ==
    /\ active \in everActive \cup {NoClient}
    /\ \A c \in everActive : c # active => c \in closed

\* C8: the service holds at most one active client, every formerly active
\* client has been closed, and a connect that installs a new client closes the
\* active one, if any, before it installs the new one.
C8_PreviousClosedBeforeInstall ==
    [][/\ FormerClientsClosed'
       /\ created' # created /\ created' \in everActive' =>
             IF active # NoClient
             THEN /\ Len(log') >= 2
                  /\ log'[1] = CloseEvent(active)
                  /\ log'[2] = InstallEvent(created')
                  /\ active \in closed'
             ELSE log'[1] = InstallEvent(created')]_vars

\* a second connect has replaced an active client: the first was closed, then
\* the second installed, and it is the active one
C8_ClientReplaced ==
    /\ ret.op = "connect" /\ ret.status = "returned"
    /\ Len(log) >= 2
    /\ log[1].e = "close" /\ log[1].client # active /\ log[1].client \in closed
    /\ log[2] = InstallEvent(active)

\* C9: a disconnect that closed the active client leaves no active client, no
\* config, no connection id, no current database and the capability status
\* UNKNOWN; and with no active client get_connection_info returns the one
\* entry connected = FALSE.
C9_DisconnectClearsSession ==
    /\ ret.op = "disconnect" /\ log # <<>> /\ log[1].e = "close" =>
          /\ active = NoClient
          /\ config = None
          /\ connId = None
          /\ currentDb = None
          /\ vectorStatus = "UNKNOWN"
    /\ ret.op = "get_connection_info" /\ active = NoClient =>
          ret.value = [connected |-> FALSE]

\* disconnect has closed a client that a connect had made the active one
C9_Disconnected ==
    /\ ret.op = "disconnect"
    /\ log # <<>> /\ log[1].e = "close"
    /\ log[1].client \in everActive
    /\ active = NoClient

\* the operations after which the schema-change callbacks are to be called: a
\* connect or disconnect that returned, a successful CREATE, DROP, ALTER or
\* USE statement
NotifyingCallReturned ==
    \/ ret.op \in {"connect", "disconnect"} /\ ret.status = "returned"
    \/ /\ ret.op = "execute_query" /\ ret.status = "returned"
       /\ ret.value.success
       /\ ret.value.query_type \in {"CREATE", "DROP", "ALTER", "USE"}

\* C10 as stated: a callback that was registered and not unregistered since
\* is called in every connect, every disconnect and every successful CREATE,
\* DROP, ALTER or USE statement.
C10_RegisteredCallbackNotified ==
    NotifyingCallReturned =>
        \A cb \in registered :
            \E j \in 1..Len(log) : log[j].e = "notify" /\ log[j].cb = cb

\* the number of calls of callback cb in the current call of the service
TimesNotified(cb) ==
    Cardinality({j \in 1..Len(log) : log[j].e = "notify" /\ log[j].cb = cb})

\* C11 as stated: a disconnect calls every callback that was registered and
\* not unregistered since exactly once, and it calls none of them while it
\* holds the lock.
C11_DisconnectNotifiesOnce ==
    ret.op = "disconnect" /\ ret.status = "returned" =>
        /\ \A cb \in registered : TimesNotified(cb) = 1
        /\ \A j \in 1..Len(locked) : locked[j].e # "notify"

(***************************************************************************)
(* Properties of the notification, checked under SpecNotify.               *)
(***************************************************************************)
IsNotify(ev) == ev.e = "notify"
\* the callbacks the current call has called, in order
Told == [i \in 1..Len(SelectSeq(log, IsNotify)) |-> SelectSeq(log, IsNotify)[i].cb]

\* the current call was ended by a KeyboardInterrupt
Interrupted ==
    ret.status = "raised" /\ ret.value.msg = "Connection cancelled by user"

\* C12: a call that notifies calls every callback of the list, in order,
\* whether or not an earlier one raised; and a call in which a callback
\* raised ends as it does without that: connect returns the connection id
\* with its client active, disconnect returns with no client active,
\* execute_query returns a successful result and change_database returns with
\* the database changed.
C12_RaisingCallbackIsolated ==
    Told # <<>> /\ ~Interrupted =>
        /\ Told = callbacks
        /\ ret.status = "returned"
        /\ ret.op = "connect" =>
              active = created /\ ret.value = ConnectionId(ret.arg) /\ active \notin closed
        /\ ret.op = "disconnect" => active = NoClient
        /\ ret.op = "execute_query" =>
              /\ ret.value.success
              /\ ret.value.query_type \in {"CREATE", "DROP", "ALTER", "USE"}
        /\ ret.op = "change_database" => currentDb = Some(ret.arg)

\* a statement has notified: a callback raised, the one after it was called
\* all the same, and execute_query returned success
C12_LaterCallbackStillCalled ==
    /\ ret.op = "execute_query" /\ ret.status = "returned" /\ ret.value.success
    /\ \E j \in 1..(Len(log) - 1) :
          /\ log[j].e = "notify" /\ log[j].raised
          /\ log[j + 1].e = "notify" /\ ~log[j + 1].raised

(***************************************************************************)
(* Further properties of the connection lifecycle, checked under Spec.     *)
(***************************************************************************)
NoPreviousConfig ==
    [exc |-> "ValueError", msg |-> "No previous connection configuration available"]

\* C13 (as the code has it): reconnect hands the stored config to connect and
\* raises ValueError exactly when none is stored.  The stored config is that
\* of the most recent connect that returned, until a disconnect, or a connect
\* cancelled after it had installed its client, clears it: from then on, and
\* before the first connect, reconnect raises ValueError.
C13_ReconnectReplaysStoredConfig ==
    /\ [](config # None => config = lastConnected)
    /\ [][ret'.op = "reconnect" =>
             IF config = None
             THEN ret'.status = "raised" /\ ret'.value = NoPreviousConfig
             ELSE ret'.arg = config[1] /\ ret'.value # NoPreviousConfig]_vars

\* reconnect has replaced the active client by one built from the stored config
C13_Reconnected ==
    /\ ret.op = "reconnect" /\ ret.status = "returned"
    /\ config = Some(ret.arg)
    /\ active = created
    /\ log[1].e = "close" /\ log[2] = InstallEvent(active)

\* C13 as stated: once a connect has returned, reconnect calls connect with
\* the config of the most recent connect that returned, whatever disconnects
\* came after it; ValueError only if no connect has returned yet.
C13_ReconnectAfterAnySequence ==
    [][ret'.op = "reconnect" =>
          IF lastConnected = None
          THEN ret'.value = NoPreviousConfig
          ELSE ret'.arg = lastConnected[1] /\ ret'.value # NoPreviousConfig]_vars

\* the status the capability probe is to set for what its query yields
ExpectedStatus(rows) ==
    IF rows = "no_rows" THEN "DISABLED"
    ELSE IF rows \in {"OFF", "off"} THEN "ENABLED"
    ELSE "DISABLED"

\* C14: after a probe that was not interrupted the status is UNKNOWN when the
\* query raised, DISABLED when it gave no row, ENABLED when the value is OFF
\* in either case of letters, DISABLED for any other value; a probe without
\* an active client sets UNKNOWN; has_vector_capability() is TRUE exactly
\* when the status is ENABLED.
C14_ProbeSetsStatus ==
    /\ ~Interrupted =>
          \A j \in 1..Len(log) :
              log[j].e = "client.execute" /\ log[j].sql = sqlShowVidx =>
                  IF log[j].raised THEN vectorStatus = "UNKNOWN"
                  ELSE /\ j < Len(log)
                       /\ log[j + 1].e = "client.fetchall"
                       /\ vectorStatus = ExpectedStatus(log[j + 1].rows)
    /\ ret.op = "_detect_vector_capability" /\ active = NoClient =>
          log = <<>> /\ vectorStatus = "UNKNOWN"
    /\ ret.op = "has_vector_capability" => ret.value = (vectorStatus = "ENABLED")

\* a connect has returned whose probe query raised: the status is UNKNOWN
C14_ProbeFailedUnknown ==
    /\ ret.op = "connect" /\ ret.status = "returned"
    /\ \E j \in 1..Len(log) : log[j] = ClientExecute(active, sqlShowVidx, TRUE)
    /\ vectorStatus = "UNKNOWN"

\* C15: a connect (or reconnect) that was cancelled raises ConnectionError
\* "Connection cancelled by user"; the client it built, if it got that far,
\* has been closed and is not the active one; and the service is left either
\* without active client, config and connection id, or with those it had
\* before the call.
C15_CancelledConnectUnwinds ==
    [][ret'.op \in {"connect", "reconnect"} /\ Interrupted' =>
          /\ ret'.value.exc = "ConnectionError"
          /\ created' # created => created' \in closed' /\ active' # created'
          /\ \/ active' = NoClient /\ config' = None /\ connId' = None
             \/ /\ active # NoClient
                /\ active' = active /\ config' = config /\ connId' = connId]_vars

\* a connect was cancelled after it had installed its client: that client is
\* closed and the service holds no client, config or connection id
C15_CancelledAfterInstall ==
    /\ ret.op = "connect" /\ Interrupted
    /\ created \in everActive /\ created \in closed
    /\ active = NoClient /\ config = None /\ connId = None

\* the call on which close() raised, if the current call made one under the lock
CloseFailed(c) == \E j \in 1..Len(locked) : locked[j] = LockedCall("close", c, "Exception")

\* C16: disconnect, __exit__ and __del__ leave every client that was ever
\* active closed; and when close() of the active client raises an exception,
\* the call still returns: disconnect and __exit__ have cleared the session,
\* __del__ has returned, and a connect that was not cancelled has installed
\* its new client and returned its connection id.
C16_CloseFailureContained ==
    /\ ret.op \in {"disconnect", "__exit__", "__del__"} => everActive \subseteq closed
    /\ \A c \in Clients :
          CloseFailed(c) =>
              /\ c \in closed
              /\ ret.op \in {"disconnect", "__exit__", "__del__"} => ret.status = "returned"
              /\ ret.op \in {"disconnect", "__exit__"} =>
                    /\ active = NoClient /\ config = None /\ connId = None
                    /\ currentDb = None /\ vectorStatus = "UNKNOWN"
              /\ ret.op \in {"connect", "reconnect"} =>
                    /\ created \in everActive /\ created # c
                    /\ \E j \in 1..Len(log) : log[j] = InstallEvent(created)
                    /\ ~Interrupted =>
                          /\ ret.status = "returned"
                          /\ active = created
                          /\ connId = Some(ret.value)

\* close() of the active client raised in a disconnect, and disconnect
\* returned with the session cleared
C16_DisconnectDespiteCloseFailure ==
    /\ ret.op = "disconnect" /\ ret.status = "returned"
    /\ \E c \in Clients : CloseFailed(c) /\ c \in closed
    /\ active = NoClient /\ config = None

(***************************************************************************)
(* Properties of the lock, checked under SpecThreads.                      *)
(***************************************************************************)
\* thread t is inside a call on the client
InClientCall(t) == threads[t].at # "idle"

\* thread t waits in execute_query for the client to run its statement
WaitsForQuery(t) == threads[t].op = "execute_query" /\ threads[t].at = "client.execute"

\* C17 as stated: whenever a thread is inside a call on the client, in any
\* operation, it does not hold the lock.
C17_NoClientCallUnderLock ==
    \A t \in Threads : InClientCall(t) => lock # t

\* C17: the lock is held across a call on the client only across close() of
\* the active client (connect, disconnect) and across the transaction state
\* and autocommit getters (get_connection_info); it is never held while the
\* client executes a statement, in execute_query or in connect.
C17_LockOnlyAcrossCloseAndInfo ==
    \A t \in Threads :
        /\ lock = t => threads[t].at \in {"client.close", "client.get_transaction_state"}
        /\ threads[t].at = "client.execute" => lock # t
        /\ threads[t].at = "client.close" => threads[t].op \in {"connect", "disconnect"}
        /\ threads[t].at = "client.get_transaction_state"
              => threads[t].op = "get_connection_info"

\* a thread is in close() of the active client and holds the lock, while
\* the other thread waits for that client to run a statement
C17_CloseUnderLockDuringQuery ==
    \E t, u \in Threads :
        /\ lock = t
        /\ threads[t].at = "client.close"
        /\ WaitsForQuery(u)
        /\ threads[u].client = threads[t].client

\* C18: while a thread waits in execute_query for the client, it does not
\* hold the lock; another thread that is idle can enter disconnect and
\* get_connection_info, and one that is inside them can return.
C18_QueryDoesNotBlockOthers ==
    \A a \in Threads : WaitsForQuery(a) =>
        /\ lock # a
        /\ \A b \in Threads \ {a} :
              /\ threads[b] = Idle
                    => ENABLED TDisconnectCall(b) /\ ENABLED TGetInfoCall(b)
              /\ threads[b].op = "disconnect" /\ threads[b].at = "client.close"
                    => ENABLED TDisconnectReturn(b, FALSE)
              /\ threads[b].op = "get_connection_info" /\ InClientCall(b)
                    => ENABLED TGetInfoReturn(b, "both")

\* a thread still waits for its statement, and meanwhile a disconnect and a
\* get_connection_info of the other thread have completed
C18_CompletedDuringQuery ==
    \E a \in Threads :
        /\ WaitsForQuery(a)
        /\ {"disconnect", "get_connection_info"} \subseteq threads[a].overlapped

(***************************************************************************)
(* Properties of the last query context, checked under SpecContext.        *)
(***************************************************************************)
\* the call execute_query that ended as r, from outside a script
Completed(r) == r.op = "execute_query" /\ r.status # "running"

\* every field of the context ctx is the one of the call that ended as r
Reflects(ctx, r) ==
    /\ ctx.sql = r.arg
    /\ ctx.status = (IF r.status = "returned" /\ r.value.success THEN "SUCCESS" ELSE "ERROR")
    /\ r.status = "returned" =>
          /\ ctx.columns = r.value.columns
          /\ ctx.rows = (IF r.value.rows = <<>> THEN None ELSE Some(r.value.rows))
          /\ ctx.row_count = Len(r.value.rows)
          /\ ctx.affected_rows = r.value.affected_rows
          /\ ctx.error_message = r.value.error
    /\ r.status = "raised" =>
          /\ ctx.columns = None
          /\ ctx.rows = None
          /\ ctx.row_count = 0
          /\ ctx.affected_rows = None
          /\ ctx.error_message = Some(r.value.msg)

LowerChar(c) ==
    IF c \in Range(UpperChars)
    THEN LowerChars[CHOOSE i \in 1..Len(UpperChars) : UpperChars[i] = c]
    ELSE c
Lower(s) == [i \in 1..Len(s) |-> LowerChar(s[i])]

\* the first character in lower case, the others as they are
Uncapitalised(s) == [i \in 1..Len(s) |-> IF i = 1 THEN LowerChar(s[i]) ELSE s[i]]

\* the keywords of the table, a word that is none, and no word
TableKeywords == {_QUERY_TYPE_PREFIXES[i][1] : i \in 1..Len(_QUERY_TYPE_PREFIXES)}
kwFOO == <<"F", "O", "O">>
ClassifyWords == TableKeywords \cup {kwFOO, <<>>}

\* what follows the word: nothing, or a text that begins with a letter, a
\* digit, or a character that is neither
ClassifyRests == {<<>>, <<"F", "O", "O">>, <<"x">>, <<"1">>, <<" ", "x">>, <<"_", "x">>,
                  <<";">>, <<"(", "1", ")">>, <<"\n", "1">>}

\* the whitespace around the text
ClassifyPads == {<<>>, <<" ">>, <<"\t", "\n">>}

ClassifyCases == {"upper", "lower", "mixed"}

ClassifyInputs ==
    [word : ClassifyWords, rest : ClassifyRests, case : ClassifyCases,
     left : ClassifyPads, right : ClassifyPads]

InCase(s, case) ==
    IF case = "lower" THEN Lower(s)
    ELSE IF case = "mixed" THEN Uncapitalised(s)
    ELSE s

\* the text of an input
ClassifyText(in) == in.left \o InCase(in.word \o in.rest, in.case) \o in.right

\* a call of _classify_query on the text of one of the inputs is to be made
InitClassify ==
    \E in \in ClassifyInputs :
        Fields(<<>>) /\ ret = InProgress("_classify_query", in)

\* the call returns
ClassifyQuery ==
    /\ ret.op = "_classify_query"
    /\ ret.status = "running"
    /\ ret' = Returned("_classify_query", ret.arg, _classify_query(ClassifyText(ret.arg)))
    /\ UNCHANGED <<active, config, connId, currentDb, vectorStatus, callbacks, sourceCb,
                   created, closed, everActive, registered, stack, log, scripts, duck, locked,
                   lastConnected, lastCtx, lock, threads>>

NextClassify == ClassifyQuery

SpecClassify == InitClassify /\ [][NextClassify]_vars

\* the type the table gives for a keyword
TypeOfKeyword(word) ==
    _QUERY_TYPE_PREFIXES[CHOOSE i \in 1..Len(_QUERY_TYPE_PREFIXES) :
                            _QUERY_TYPE_PREFIXES[i][1] = word][2]

\* the keyword is followed by the end of the text or by a character that is
\* not alphanumeric
AtWordEnd(rest) == rest = <<>> \/ ~IsAlnum(rest[1])

kwWITH == <<"W", "I", "T", "H">>
kwSELECT == <<"S", "E", "L", "E", "C", "T">>

\* C20: for a text made of a word, what follows it, a letter case and
\* whitespace around it, _classify_query returns the table's type of the word
\* when the word is a keyword of the table followed by the end of the text or
\* a non-alphanumeric character, and OTHER in every other case (a keyword
\* followed by a letter or digit, a word of no entry, no text but blanks);
\* WITH gives the type of SELECT; letter case and the whitespace around the
\* text make no difference.
C20_ClassifyByKeywordPrefix ==
    ret.op = "_classify_query" /\ ret.status = "returned" =>
        LET in == ret.arg
        IN  /\ ret.value = (IF in.word \in TableKeywords /\ AtWordEnd(in.rest)
                            THEN TypeOfKeyword(in.word) ELSE "OTHER")
            /\ in.word = kwWITH /\ AtWordEnd(in.rest) => ret.value = "SELECT"
            /\ in.word = kwSELECT /\ in.rest = kwFOO => ret.value = "OTHER"
            /\ ret.value = _classify_query(Upper(in.word \o in.rest))

\* a lower-case WITH query with whitespace around it has been classified
\* SELECT
C20_PaddedLowerCaseWith ==
    /\ ret.op = "_classify_query"
    /\ ret.status = "returned"
    /\ ClassifyText(ret.arg) = <<"\t", "\n", "w", "i", "t", "h", " ", "x", " ">>
    /\ ret.value = "SELECT"

(***************************************************************************)
(* is_sql_statement.                                                       *)
(***************************************************************************)
_OPTIONAL_MODIFIERS ==
    {<<"F", "U", "L", "L">>,
     <<"E", "X", "T", "E", "N", "D", "E", "D">>,
     <<"G", "L", "O", "B", "A", "L">>,
     <<"S", "E", "S", "S", "I", "O", "N">>,
     <<"M", "A", "S", "T", "E", "R">>,
     <<"S", "L", "A", "V", "E">>,
     <<"R", "E", "P", "L", "I", "C", "A">>}

_VALID_SHOW_TARGETS ==
    {<<"T", "A", "B", "L", "E", "S">>,
     <<"S", "C", "H", "E", "M", "A", "S">>,
     <<"C", "R", "E", "A", "T", "E">>,
     <<"I", "N", "D", "E", "X">>,
     <<"D", "A", "T", "A", "B", "A", "S", "E", "S">>,
     <<"P", "R", "O", "C", "E", "S", "S", "L", "I", "S", "T">>,
     <<"V", "A", "R", "I", "A", "B", "L", "E", "S">>,
     <<"S", "T", "A", "T", "U", "S">>,
     <<"E", "N", "G", "I", "N", "E">>,
     <<"S", "L", "A", "V", "E">>,
     <<"R", "E", "P", "L", "I", "C", "A">>,
     <<"G", "R", "A", "N", "T", "S">>,
     <<"W", "A", "R", "N", "I", "N", "G", "S">>,
     <<"E", "R", "R", "O", "R", "S">>,
     <<"T", "A", "B", "L", "E">>,
     <<"C", "O", "L", "U", "M", "N", "S">>,
     <<"F", "I", "E", "L", "D", "S">>,
     <<"K", "E", "Y", "S">>,
     <<"T", "R", "I", "G", "G", "E", "R", "S">>,
     <<"P", "R", "O", "C", "E", "D", "U", "R", "E">>,
     <<"F", "U", "N", "C", "T", "I", "O", "N">>}

\* str.split(): the words between runs of whitespace
RECURSIVE SplitWords(_)
SplitWords(s) ==
    LET t == LStrip(s)
    IN  IF t = <<>> THEN <<>>
        ELSE IF \E i \in 1..Len(t) : IsSpace(t[i])
        THEN LET i == CHOOSE j \in 1..Len(t) :
                          IsSpace(t[j]) /\ \A k \in 1..(j - 1) : ~IsSpace(t[k])
             IN  <<SubSeq(t, 1, i - 1)>> \o SplitWords(SubSeq(t, i, Len(t)))
        ELSE <<t>>

\* str.rstrip(";")
RECURSIVE RStripSemicolons(_)
RStripSemicolons(s) ==
    IF s # <<>> /\ s[Len(s)] = ";" THEN RStripSemicolons(SubSeq(s, 1, Len(s) - 1)) ELSE s

NotModifier(token) == token \notin _OPTIONAL_MODIFIERS

\* a choice of the target that takes the first token, modifier or not
ShowTargetAnyToken(tokens) ==
    IF tokens = <<>> THEN None ELSE Some(RStripSemicolons(tokens[1]))

\* next(token.rstrip(";") for the tokens that are no modifiers, None)
ShowTarget(tokens) ==
    LET candidates == SelectSeq(tokens, NotModifier)
    IN  IF candidates = <<>> THEN None ELSE Some(RStripSemicolons(candidates[1]))

is_sql_statement(command) ==
    IF command = <<>> THEN FALSE
    ELSE LET query_type == _classify_query(command)
         IN  IF query_type = "OTHER" THEN FALSE
             ELSE IF query_type = "SHOW"
             THEN LET command_upper == Upper(Strip(command))
                      rest == Strip(SubSeq(command_upper, 5, Len(command_upper)))
                      target == ShowTarget(SplitWords(rest))
                  IN  IF rest = <<>> THEN FALSE
                      ELSE IF target = None THEN FALSE
                      ELSE target[1] \in _VALID_SHOW_TARGETS
             ELSE TRUE

\* the commands is_sql_statement is tried on: a first word and up to
\* MaxTokens words after it, one blank between them
MaxTokens == 3
SqlFirstWords ==
    {<<"S", "H", "O", "W">>,
     <<"s", "h", "o", "w">>,
     <<"S", "E", "L", "E", "C", "T">>,
     <<"F", "O", "O">>,
     <<>>,
     <<"S", "H", "O", "W", "M", "E">>}
SqlTokens ==
    {<<"F", "U", "L", "L">>,
     <<"S", "L", "A", "V", "E">>,
     <<"T", "A", "B", "L", "E", "S">>,
     <<"s", "t", "a", "t", "u", "s">>,
     <<"m", "e">>,
     <<"T", "A", "B", "L", "E", "S", ";">>,
     <<"S", "L", "A", "V", "E", ";">>,
     <<";">>,
     <<"F", "O", "O">>,
     <<"g", "l", "o", "b", "a", "l">>}
SqlInputs ==
    [first : SqlFirstWords,
     tokens : UNION {[1..n -> SqlTokens] : n \in 0..MaxTokens}]

SqlText(in) == Join(<<in.first>> \o in.tokens, " ")

\* a call of is_sql_statement on the text of one of the inputs is to be made
InitSql ==
    \E in \in SqlInputs :
        Fields(<<>>) /\ ret = InProgress("is_sql_statement", in)

\* the call returns
IsSqlStatement ==
    /\ ret.op = "is_sql_statement"
    /\ ret.status = "running"
    /\ ret' = Returned("is_sql_statement", ret.arg, is_sql_statement(SqlText(ret.arg)))
    /\ UNCHANGED <<active, config, connId, currentDb, vectorStatus, callbacks, sourceCb,
                   created, closed, everActive, registered, stack, log, scripts, duck, locked,
                   lastConnected, lastCtx, lock, threads>>

NextSql == IsSqlStatement

SpecSql == InitSql /\ [][NextSql]_vars

\* the words after the first one, in upper case, that are no modifiers
NonModifiers(in) == SelectSeq([i \in 1..Len(in.tokens) |-> Upper(in.tokens[i])], NotModifier)

kwSHOW == <<"S", "H", "O", "W">>
IsShow(in) == Upper(in.first) = kwSHOW
SqlAnswered == ret.op = "is_sql_statement" /\ ret.status = "returned"

\* C21 as stated: false for OTHER text, true for the keyword classes other
\* than SHOW, and for SHOW true only if a word after it that is no modifier
\* is, exactly, one of the valid targets; SHOW alone or followed by modifiers
\* only, with or without the terminator, is false.
C21_ShowNeedsExactTarget ==
    SqlAnswered =>
        LET in == ret.arg
        IN  /\ _classify_query(SqlText(in)) = "OTHER" => ~ret.value
            /\ _classify_query(SqlText(in)) \notin {"OTHER", "SHOW"} => ret.value
            /\ IsShow(in) /\ ret.value =>
                  \E i \in 1..Len(NonModifiers(in)) :
                      NonModifiers(in)[i] \in _VALID_SHOW_TARGETS
            /\ IsShow(in) /\ (\A i \in 1..Len(in.tokens) :
                                  RStripSemicolons(Upper(in.tokens[i])) \in _OPTIONAL_MODIFIERS)
                  => ~ret.value

\* C21: false for OTHER text, true for the keyword classes other than SHOW,
\* and for SHOW true exactly when the first word after it that is no
\* modifier is, once its trailing semicolons are removed, one of the valid
\* targets; modifiers before it are skipped, and SHOW alone or followed by
\* nothing but words that are modifiers is false.
C21_ShowNeedsTargetAfterModifiers ==
    SqlAnswered =>
        LET in == ret.arg
        IN  /\ _classify_query(SqlText(in)) = "OTHER" => ~ret.value
            /\ _classify_query(SqlText(in)) \notin {"OTHER", "SHOW"} => ret.value
            /\ IsShow(in) =>
                  (ret.value <=>
                      /\ NonModifiers(in) # <<>>
                      /\ RStripSemicolons(NonModifiers(in)[1]) \in _VALID_SHOW_TARGETS)
            /\ IsShow(in) /\ NonModifiers(in) = <<>> => ~ret.value
            /\ SqlText(in) = <<"s", "h", "o", "w", " ", "m", "e">> => ~ret.value
            /\ SqlText(in) = <<"S", "H", "O", "W", " ", "T", "A", "B", "L", "E", "S">> => ret.value

\* SHOW FULL TABLES; has been taken for a statement
C21_ModifierThenTargetWithSemicolon ==
    /\ SqlAnswered
    /\ SqlText(ret.arg) = <<"S", "H", "O", "W", " ", "F", "U", "L", "L", " ", "T", "A", "B", "L", "E", "S", ";">>
    /\ ret.value

(***************************************************************************)
(* Properties of the transaction operations, checked under SpecTx.         *)
(***************************************************************************)
\* C22: a transaction operation without an active client raises
\* DatabaseError and calls no client; with one, it calls the method of its
\* name on the active client, once and with its argument, and nothing else;
\* it raises exactly when that call raised, and then the common error
\* tagged with the operation; and the operation changes no field of the
\* service.
C22_TransactionOpsForward ==
    /\ [](ret.op \in TransactionOps =>
            IF active = NoClient
            THEN /\ ret = Raised(ret.op, ret.arg, "DatabaseError",
                                 "No active database connection")
                 /\ log = <<>>
            ELSE /\ Len(log) = 1
                 /\ log[1].e = "client"
                 /\ log[1].method = ret.op
                 /\ log[1].client = active
                 /\ log[1].arg = ret.arg
                 /\ log[1].raised <=> ret.status = "raised"
                 /\ ret.status = "raised" =>
                       /\ ret.value.exc = "DatabaseError"
                       /\ ret.value.msg = OperationTag(ret.op, ret.arg)
                 /\ ret.status # "raised" => ret = Returned(ret.op, ret.arg, None))
    /\ [][ret'.op \in TransactionOps =>
            UNCHANGED <<active, config, connId, currentDb, vectorStatus, callbacks,
                        sourceCb, created, closed, everActive, lastCtx, lock>>]_vars

\* set_autocommit(False) has failed in the client of a connected service
C22_SetAutocommitFailed ==
    /\ ret.op = "set_autocommit"
    /\ ret.arg = Some(FALSE)
    /\ ret.status = "raised"
    /\ active # NoClient
    /\ log # <<>>

(***************************************************************************)
(* Properties of the DuckDB client, checked under SpecDuck.                *)
(***************************************************************************)
\* the methods called on the client so far
DuckCalled == {log[i].method : i \in 1..Len(log)}

\* C23: whatever of begin, commit, rollback and set_autocommit has been
\* called on a DuckDB client, get_transaction_state() gives
\* NOT_IN_TRANSACTION and get_autocommit() gives True, at every call of
\* them and if they were called now.
C23_DuckReportsFixedState ==
    /\ duckdb_get_transaction_state(duck) = "NOT_IN_TRANSACTION"
    /\ duckdb_get_autocommit(duck) = TRUE
    /\ ret.op = "duckdb.get_transaction_state" => ret.value = "NOT_IN_TRANSACTION"
    /\ ret.op = "duckdb.get_autocommit" => ret.value = TRUE

\* get_autocommit() has returned True after begin_transaction() and
\* set_autocommit(False)
C23_AutocommitAfterSetFalse ==
    /\ ret.op = "duckdb.get_autocommit"
    /\ ret.value = TRUE
    /\ duck._autocommit = FALSE
    /\ Len(log) = 3
    /\ log[1].method = "duckdb.begin_transaction"
    /\ log[2] = DuckEvent("duckdb.set_autocommit", Some(FALSE))

(***************************************************************************)
(* DuckDBURLParser.parse and ParsedDuckDBURL.url.                          *)
(***************************************************************************)
\* the position of the first character of s that is in chars, or 0
FirstOf(s, chars) ==
    IF \E i \in 1..Len(s) : s[i] \in chars
    THEN CHOOSE i \in 1..Len(s) : s[i] \in chars /\ \A k \in 1..(i - 1) : s[k] \notin chars
    ELSE 0

SchemeChars == AlnumSet \cup {"+", "-", "."}
IsAlpha(c) == c \in Range(LowerChars) \cup Range(UpperChars)

\* urllib.parse.urlparse on a text without ';', in the steps of urlsplit: the
\* scheme in lower case, the authority after '//', the fragment after '#', the
\* query after '?' and the path
UrlQuery(scheme, netloc, nofrag, fragment, mark) ==
    [scheme |-> scheme, netloc |-> netloc,
     path |-> IF mark = 0 THEN nofrag ELSE SubSeq(nofrag, 1, mark - 1),
     query |-> IF mark = 0 THEN <<>> ELSE SubSeq(nofrag, mark + 1, Len(nofrag)),
     fragment |-> fragment]

UrlFragment(scheme, netloc, tail, hash) ==
    IF hash = 0 THEN UrlQuery(scheme, netloc, tail, <<>>, FirstOf(tail, {"?"}))
    ELSE UrlQuery(scheme, netloc, SubSeq(tail, 1, hash - 1),
                  SubSeq(tail, hash + 1, Len(tail)),
                  FirstOf(SubSeq(tail, 1, hash - 1), {"?"}))

UrlNetloc(scheme, after, delim) ==
    IF delim = 0 THEN UrlFragment(scheme, after, <<>>, 0)
    ELSE UrlFragment(scheme, SubSeq(after, 1, delim - 1), SubSeq(after, delim, Len(after)),
                     FirstOf(SubSeq(after, delim, Len(after)), {"#"}))

UrlAuthority(scheme, rest) ==
    IF Len(rest) >= 2 /\ SubSeq(rest, 1, 2) = <<"/", "/">>
    THEN UrlNetloc(scheme, SubSeq(rest, 3, Len(rest)),
                   FirstOf(SubSeq(rest, 3, Len(rest)), {"/", "?", "#"}))
    ELSE UrlFragment(scheme, <<>>, rest, FirstOf(rest, {"#"}))

UrlScheme(url, colon) ==
    IF /\ colon > 1
       /\ IsAlpha(url[1])
       /\ \A i \in 1..(colon - 1) : url[i] \in SchemeChars
    THEN UrlAuthority(Lower(SubSeq(url, 1, colon - 1)), SubSeq(url, colon + 1, Len(url)))
    ELSE UrlAuthority(<<>>, url)

urlparse(url) == UrlScheme(url, FirstOf(url, {":"}))

\* the characters the escapes of the model stand for
Escapes == (<<"2", "0">> :> " ") @@ (<<"2", "5">> :> "%") @@ (<<"3", "F">> :> "?")
           @@ (<<"3", "A">> :> ":")

\* urllib.parse.unquote
RECURSIVE unquote(_)
unquote(s) ==
    IF s = <<>> THEN <<>>
    ELSE IF s[1] = "%" /\ Len(s) >= 3 /\ SubSeq(s, 2, 3) \in DOMAIN Escapes
    THEN <<Escapes[SubSeq(s, 2, 3)]>> \o unquote(SubSeq(s, 4, Len(s)))
    ELSE <<s[1]>> \o unquote(Tail(s))

SUPPORTED_PROTOCOLS == {"file", "http", "https", "duckdb"}

\* the name of a protocol as text, and the protocol of a scheme
ProtocolText ==
    ("file" :> <<"f", "i", "l", "e">>) @@ ("http" :> <<"h", "t", "t", "p">>)
    @@ ("https" :> <<"h", "t", "t", "p", "s">>) @@ ("duckdb" :> <<"d", "u", "c", "k", "d", "b">>)
ProtocolOf(scheme) ==
    IF \E p \in SUPPORTED_PROTOCOLS : ProtocolText[p] = scheme
    THEN Some(CHOOSE p \in SUPPORTED_PROTOCOLS : ProtocolText[p] = scheme)
    ELSE None

memoryPath == <<":", "m", "e", "m", "o", "r", "y", ":">>
SchemeSep == <<":", "/", "/">>

\* a ParsedDuckDBURL that is in memory whenever its path is the sentinel
FlaggedBySentinelPath(protocol, path, is_memory, original_url) ==
    [protocol |-> protocol, path |-> path, is_memory |-> path = memoryPath,
     original_url |-> original_url]

ParsedDuckDBURL(protocol, path, is_memory, original_url) ==
    [protocol |-> protocol, path |-> path, is_memory |-> is_memory,
     original_url |-> original_url]

\* DuckDBURLParser.parse(url)
parse(urlIn) ==
    LET url == Strip(urlIn)
        parsed == urlparse(url)
        scheme == Lower(parsed.scheme)
        protocol == ProtocolOf(scheme)
        withHost == IF parsed.netloc # <<>> THEN <<"/">> \o parsed.netloc \o parsed.path
                    ELSE parsed.path
    IN  IF url = <<>> THEN Raise("ValueError", "URL cannot be empty")
        ELSE IF protocol = None THEN Raise("ValueError", "Unsupported protocol")
        ELSE IF protocol[1] = "file"
        THEN Return(ParsedDuckDBURL("file", unquote(withHost), FALSE, url))
        ELSE IF protocol[1] \in {"http", "https"}
        THEN Return(ParsedDuckDBURL(protocol[1],
                        scheme \o SchemeSep \o parsed.netloc \o parsed.path
                        \o (IF parsed.query # <<>> THEN <<"?">> \o parsed.query ELSE <<>>)
                        \o (IF parsed.fragment # <<>> THEN <<"#">> \o parsed.fragment
                            ELSE <<>>),
                        FALSE, url))
        ELSE IF parsed.netloc = memoryPath
        THEN Return(ParsedDuckDBURL("duckdb", memoryPath, TRUE, url))
        ELSE Return(ParsedDuckDBURL("duckdb", unquote(withHost),
                                    unquote(withHost) = memoryPath, url))

\* ParsedDuckDBURL.url
url_of(p) ==
    IF p.protocol = "duckdb"
    THEN IF p.is_memory THEN ProtocolText["duckdb"] \o SchemeSep \o memoryPath
         ELSE ProtocolText["duckdb"] \o SchemeSep \o p.path
    ELSE IF p.protocol = "file" THEN ProtocolText["file"] \o SchemeSep \o p.path
    ELSE ProtocolText[p.protocol] \o SchemeSep \o p.path

\* the URLs parse is tried on: a scheme, with or without '//' and an
\* authority, a path, and a query
UrlSchemes ==
    {<<"f", "i", "l", "e">>, <<"h", "t", "t", "p">>, <<"h", "t", "t", "p", "s">>, <<"d", "u", "c", "k", "d", "b">>, <<"D", "U", "C", "K", "D", "B">>, <<"f", "t", "p">>}
UrlAuthorities == {None, Some(<<>>), Some(<<"h">>), Some(memoryPath), Some(<<":", "M", "E", "M", "O", "R", "Y", ":">>)}
UrlPaths == {<<>>, <<"/", "a">>, <<"/", "a", "/", "b", ".", "c", "s", "v">>, <<"/", "a", "%", "2", "0", "b">>, memoryPath,
     <<"%", "3", "A", "m", "e", "m", "o", "r", "y", "%", "3", "A">>}
UrlQueries == {<<>>, <<"?", "x">>}
UrlInputs ==
    [scheme : UrlSchemes, authority : UrlAuthorities, path : UrlPaths, query : UrlQueries]

UrlText(in) ==
    in.scheme \o <<":">>
    \o (IF in.authority = None THEN <<>> ELSE <<"/", "/">> \o in.authority[1])
    \o in.path \o in.query

\* a call of parse on the text of one of the inputs is to be made
InitUrl ==
    \E in \in UrlInputs :
        Fields(<<>>) /\ ret = InProgress("parse", UrlText(in))

\* the call returns a ParsedDuckDBURL or raises ValueError
ParseUrl ==
    /\ ret.op = "parse"
    /\ ret.status = "running"
    /\ ret' = LET r == parse(ret.arg)
              IN  IF r.ok THEN Returned("parse", ret.arg, r.value)
                  ELSE Raised("parse", ret.arg, r.exc, r.msg)
    /\ UNCHANGED <<active, config, connId, currentDb, vectorStatus, callbacks, sourceCb,
                   created, closed, everActive, registered, stack, log, scripts, locked,
                   lastConnected, lastCtx, lock, threads, duck>>

NextUrl == ParseUrl

SpecUrl == InitUrl /\ [][NextUrl]_vars

\* C24: for a URL of a supported scheme, parsing the text that .url gives for
\* the parsed URL yields the same protocol, path and in-memory flag; and a
\* parsed URL that is the in-memory database serializes to duckdb://:memory:.
C24_ParseUrlRoundTrip ==
    ret.op = "parse" /\ ret.status = "returned" =>
        LET p == ret.value
            again == parse(url_of(p))
        IN  /\ again.ok
            /\ again.value.protocol = p.protocol
            /\ again.value.path = p.path
            /\ again.value.is_memory = p.is_memory
            /\ p.is_memory => url_of(p) = <<"d", "u", "c", "k", "d", "b", ":", "/", "/", ":", "m", "e", "m", "o", "r", "y", ":">>

\* C33: a URL that parse accepts is flagged in-memory exactly when its
\* protocol is duckdb and its path is ':memory:'; a flagged result has that
\* path and no other, and a file, http or https result is never flagged.
C33_MemoryFlagIffSentinel ==
    ret.op = "parse" /\ ret.status = "returned" =>
        LET p == ret.value
        IN  /\ p.is_memory <=> (p.protocol = "duckdb" /\ p.path = memoryPath)
            /\ p.is_memory => p.path = memoryPath
            /\ p.protocol \in {"file", "http", "https"} => ~p.is_memory

\* 'file::memory:' was parsed: the path is the sentinel and the result is not
\* flagged
C33_FileWithSentinelPath ==
    /\ ret.op = "parse" /\ ret.status = "returned"
    /\ ret.arg = <<"f", "i", "l", "e", ":", ":", "m", "e", "m", "o", "r", "y", ":">>
    /\ ret.value.path = memoryPath
    /\ ~ret.value.is_memory

(***************************************************************************)
(* DuckDBFileLoader.load_files.                                            *)
(***************************************************************************)
MaxSources == 3

\* the position of the last character of s that is c, or 0
LastOf(s, c) ==
    IF \E i \in 1..Len(s) : s[i] = c
    THEN CHOOSE i \in 1..Len(s) : s[i] = c /\ \A k \in (i + 1)..Len(s) : s[k] # c
    ELSE 0

\* os.path.basename
basename(path) == SubSeq(path, LastOf(path, "/") + 1, Len(path))

\* str(n) of a counter below ten
str(n) == <<(<<"1", "2", "3", "4", "5", "6", "7", "8", "9">>)[n]>>

\* the steps of infer_table_name: the file name without its extension, the
\* characters that are not alphanumeric replaced, a leading underscore before
\* a digit, and the default name
WithoutExtension(filename) ==
    IF LastOf(filename, ".") > 0 THEN SubSeq(filename, 1, LastOf(filename, ".") - 1)
    ELSE filename
Sanitized(name) ==
    [i \in 1..Len(name) |-> IF IsAlnum(name[i]) \/ name[i] = "_" THEN name[i] ELSE "_"]
LetterFirst(table_name) ==
    IF table_name # <<>> /\ ~(IsAlpha(table_name[1]) \/ table_name[1] = "_")
    THEN <<"_">> \o table_name
    ELSE table_name
OrDefault(table_name) == IF table_name = <<>> THEN <<"d", "a", "t", "a">> ELSE table_name

infer_table_name(url) ==
    OrDefault(LetterFirst(Sanitized(WithoutExtension(basename(urlparse(url).path)))))

\* Path(path).suffix.lower(), from the file name and the place of its last dot
SuffixAt(name, dot) ==
    IF dot > 1 /\ dot < Len(name) THEN Lower(SubSeq(name, dot, Len(name))) ELSE <<>>
suffix(path) == SuffixAt(basename(path), LastOf(basename(path), "."))

\* detect_file_format: the format, or None where it raises
\* UnsupportedFileFormatError
detect_file_format(url) ==
    LET ext == suffix(urlparse(url).path)
    IN  IF ext = <<".", "c", "s", "v">> THEN Some("csv")
        ELSE IF ext = <<".", "x", "l", "s", "x">> THEN Some("excel")
        ELSE None

\* what a source of the batch is: the parsed URL, and what the file system and
\* DuckDB will do with it ("ok", the file is "missing", any other "error")
Source(url, env) == [parsed_url |-> parse(url).value, env |-> env]

\* load_file(conn, parsed_url, table_name): (table_name, row_count,
\* column_count) of a table of two rows and one column, or the exception it
\* raises
load_file(src, table_name) ==
    LET url == src.parsed_url.original_url
        bare == SelectSeq(table_name, LAMBDA c : c # "_")
    IN  IF table_name = <<>> \/ bare = <<>> \/ \E i \in 1..Len(bare) : ~IsAlnum(bare[i])
        THEN [ok |-> FALSE, exc |-> "FileLoadError"]
        ELSE IF detect_file_format(url) = None
        THEN [ok |-> FALSE, exc |-> "UnsupportedFileFormatError"]
        ELSE IF src.parsed_url.protocol \notin {"file", "http", "https"}
        THEN [ok |-> FALSE, exc |-> "FileLoadError"]
        ELSE IF src.parsed_url.protocol = "file" /\ src.env = "missing"
        THEN [ok |-> FALSE, exc |-> "FileLoadError"]
        ELSE IF src.env # "ok"
        THEN [ok |-> FALSE, exc |-> "FileLoadError"]
        ELSE [ok |-> TRUE, value |-> <<table_name, 2, 1>>]

\* the name every source would get were collisions ignored
BaseTableName(base, counter, used) == base

\* the while loop of load_files: the first of base, base_1, base_2, ... that
\* is not in used
RECURSIVE FreeTableName(_, _, _)
FreeTableName(base, counter, used) ==
    LET table_name == IF counter = 0 THEN base ELSE base \o <<"_">> \o str(counter)
    IN  IF table_name \in used THEN FreeTableName(base, counter + 1, used)
        ELSE table_name

LoadFileEvent(src, table_name, r) ==
    [e |-> "load_file", url |-> src.parsed_url.original_url, table |-> table_name,
     ok |-> r.ok]

\* the body of the for loop of load_files once the name is chosen and
\* load_file has returned or raised r
Loaded(st, src, table_name, r) ==
    [load_results |-> IF r.ok THEN Append(st.load_results, r.value) ELSE st.load_results,
     errors |-> IF r.ok THEN st.errors
                ELSE Append(st.errors, [url |-> src.parsed_url.original_url, exc |-> r.exc]),
     used_table_names |-> st.used_table_names \cup {table_name},
     calls |-> Append(st.calls, LoadFileEvent(src, table_name, r))]

LoadSource(st, src, table_name) == Loaded(st, src, table_name, load_file(src, table_name))

\* the for loop of load_files from source i on
RECURSIVE LoadLoop(_, _, _)
LoadLoop(parsed_urls, i, st) ==
    IF i > Len(parsed_urls) THEN st
    ELSE LoadLoop(parsed_urls, i + 1,
             LoadSource(st, parsed_urls[i],
                        FreeTableName(
                            infer_table_name(parsed_urls[i].parsed_url.original_url),
                            0, st.used_table_names)))

\* what load_files does after the loop
LoadOutcome(st) ==
    [calls |-> st.calls,
     out |-> IF st.load_results = <<>> /\ st.errors # <<>>
             THEN [ok |-> FALSE, exc |-> "FileLoadError", msg |-> st.errors]
             ELSE [ok |-> TRUE, value |-> st.load_results]]

load_files(parsed_urls) ==
    LoadOutcome(LoadLoop(parsed_urls, 1,
                         [load_results |-> <<>>, errors |-> <<>>, used_table_names |-> {},
                          calls |-> <<>>]))

LoadUrls == {<<"f", "i", "l", "e", ":", "/", "/", "/", "a", ".", "c", "s", "v">>, <<"f", "i", "l", "e", ":", "/", "/", "/", "d", "/", "a", ".", "c", "s", "v">>, <<"h", "t", "t", "p", ":", "/", "/", "h", "/", "a", "_", "1", ".", "x", "l", "s", "x">>, <<"f", "i", "l", "e", ":", "/", "/", "/", "a", ".", "t", "x", "t">>}
LoadEnvs == {"ok", "missing", "error"}
LoadSources == {Source(u, e) : u \in LoadUrls, e \in LoadEnvs}
LoadBatches == UNION {[1..n -> LoadSources] : n \in 0..MaxSources}

\* a call of load_files on one of the batches is to be made
InitLoad ==
    \E batch \in LoadBatches :
        Fields(<<>>) /\ ret = InProgress("load_files", batch)

\* the call returns the list of results or raises FileLoadError
LoadFiles ==
    /\ ret.op = "load_files"
    /\ ret.status = "running"
    /\ LET r == load_files(ret.arg)
       IN  /\ log' = r.calls
           /\ ret' = IF r.out.ok THEN Returned("load_files", ret.arg, r.out.value)
                     ELSE Raised("load_files", ret.arg, r.out.exc, r.out.msg)
    /\ UNCHANGED <<active, config, connId, currentDb, vectorStatus, callbacks, sourceCb,
                   created, closed, everActive, registered, stack, scripts, locked,
                   lastConnected, lastCtx, lock, threads, duck>>

NextLoad == LoadFiles

SpecLoad == InitLoad /\ [][NextLoad]_vars

LoadDone == ret.op = "load_files" /\ ret.status # "running"
\* the sources of the batch that load: a supported extension, and the file
\* system and DuckDB do their part
Loads(src) ==
    /\ detect_file_format(src.parsed_url.original_url) # None
    /\ src.env = "ok"
LoadedIndexes == {i \in 1..Len(ret.arg) : Loads(ret.arg[i])}

MaxLines == 3

\* lines of statement text, blank lines and comment lines
TextLines ==
    {<<"S", "E", "L", "E", "C", "T", " ", "1", ";">>, <<" ", "S", "E", "L", "E", "C", "T", " ", "2", " ", ";", " ">>, <<"I", "N", "S", "E", "R", "T", " ", "'", "a", ";">>, <<"b", "'", ")", ";">>, <<"F", "R", "O", "M", " ", "t">>, <<>>, <<"-", "-", " ", "c", ";">>, <<";">>}
\* lines that begin with the letters DELIMITER: two directives, the end of a
\* body under the delimiter $$, a line of statement text, the bare keyword
DelimiterLines ==
    {<<"D", "E", "L", "I", "M", "I", "T", "E", "R", " ", "$", "$">>, <<" ", "d", "e", "l", "i", "m", "i", "t", "e", "r", " ", " ", ";", " ">>, <<"E", "N", "D", "$", "$">>, <<"d", "e", "l", "i", "m", "i", "t", "e", "r", "_", "i", "d", ",">>, <<"D", "E", "L", "I", "M", "I", "T", "E", "R">>}
ScriptLines == TextLines \cup DelimiterLines
\* a procedure between two directives and a statement after them, with the
\* body on one line and on three
ProcedureScripts ==
    {<<<<"D", "E", "L", "I", "M", "I", "T", "E", "R", " ", "$", "$">>, <<"C", "R", "E", "A", "T", "E", " ", "p", "(", ")", " ", "S", "E", "L", "E", "C", "T", " ", "2", ";", " ", "E", "N", "D", "$", "$">>, <<"D", "E", "L", "I", "M", "I", "T", "E", "R", " ", ";">>, <<"S", "E", "L", "E", "C", "T", " ", "1", ";">>>>,
     <<<<"D", "E", "L", "I", "M", "I", "T", "E", "R", " ", "$", "$">>, <<"C", "R", "E", "A", "T", "E", " ", "p", "(", ")">>, <<"S", "E", "L", "E", "C", "T", " ", "2", ";">>, <<"E", "N", "D", "$", "$">>, <<"D", "E", "L", "I", "M", "I", "T", "E", "R", " ", ";">>, <<"S", "E", "L", "E", "C", "T", " ", "1", ";">>>>}
SplitScripts == UNION {[1..n -> ScriptLines] : n \in 0..MaxLines} \cup ProcedureScripts

\* a call of _split_sql_statements on the text of one of the scripts is to be made
InitSplit ==
    \E script \in SplitScripts :
        Fields(<<>>) /\ ret = InProgress("_split_sql_statements", Join(script, "\n"))

SplitScript ==
    /\ ret.op = "_split_sql_statements"
    /\ ret.status = "running"
    /\ ret' = Returned("_split_sql_statements", ret.arg, _split_sql_statements(ret.arg))
    /\ UNCHANGED <<active, config, connId, currentDb, vectorStatus, callbacks, sourceCb,
                   created, closed, everActive, registered, stack, log, scripts, locked,
                   lastConnected, lastCtx, lock, threads, duck>>

NextSplit == SplitScript

SpecSplit == InitSplit /\ [][NextSplit]_vars

SplitDone == ret.op = "_split_sql_statements" /\ ret.status = "returned"
IsComment(line) ==
    StartsWith(Strip(line), <<"-", "-">>) \/ StartsWith(Strip(line), <<"#">>)
IsDirective(line) == ~IsComment(line) /\ StartsWith(Upper(Strip(line)), kwDELIMITER)
\* the lines of the script that are not comments
Kept(content) == SelectSeq(SplitOn(content, "\n"), LAMBDA l : ~IsComment(l))
\* the lines among them whose trimmed content ends with ';'
Closing(lines) == {i \in 1..Len(lines) : EndsWith(Strip(lines[i]), <<";">>)}
\* the text of lines a..b, without the ';' at its end if there is one
Segment(lines, a, b) ==
    LET r == RStrip(Join(SubSeq(lines, a, b), "\n"))
    IN  IF EndsWith(r, <<";">>) THEN Strip(SubSeq(r, 1, Len(r) - 1)) ELSE Strip(r)
\* the texts between one closing line and the next, and the text after the
\* last closing line
Segments(lines) ==
    LET cl == Closing(lines)
        nth(k) == CHOOSE i \in cl : Cardinality({j \in cl : j <= i}) = k
        last == IF cl = {} THEN 0 ELSE nth(Cardinality(cl))
    IN  [k \in 1..(Cardinality(cl) + 1) |->
            IF k <= Cardinality(cl)
            THEN Segment(lines, IF k = 1 THEN 1 ELSE nth(k - 1) + 1, nth(k))
            ELSE Segment(lines, last + 1, Len(lines))]
\* a line that holds one statement terminated by ';'
Terminated(line) ==
    LET t == Strip(line)
    IN  /\ EndsWith(t, <<";">>)
        /\ Strip(SubSeq(t, 1, Len(t) - 1)) # <<>>
        /\ \A i \in 1..(Len(t) - 1) : t[i] \notin {";", "'"}
        /\ ~IsComment(line) /\ ~IsDirective(line)

\* C26: with ';' the active delimiter, the statements are the non-empty texts
\* between one line whose trimmed content ends with ';' and the next such line
\* (and the text after the last one), each without that ';', whether or not
\* the ';' is inside a quoted literal; so a script of n lines that each hold one
\* statement terminated by ';' gives n statements, the lines without their ';'.
C26_ClosedAtLineEndingWithDelimiter ==
    SplitDone /\ (\A l \in Range(SplitOn(ret.arg, "\n")) : ~IsDirective(l)) =>
        LET all == SplitOn(ret.arg, "\n")
        IN  /\ ret.value = SelectSeq(Segments(Kept(ret.arg)), LAMBDA s : s # <<>>)
            /\ (\A l \in Range(all) : Terminated(l)) =>
                   /\ Len(ret.value) = Len(all)
                   /\ \A i \in 1..Len(all) :
                          LET t == Strip(all[i])
                          IN  ret.value[i] = Strip(SubSeq(t, 1, Len(t) - 1))

\* a line ends inside a quoted literal with ';': the statement is cut there
C26_ClosedInsideQuotedLiteral ==
    /\ SplitDone
    /\ ret.arg = Join(<<<<"I", "N", "S", "E", "R", "T", " ", "'", "a", ";">>, <<"b", "'", ")", ";">>>>, "\n")
    /\ ret.value = <<<<"I", "N", "S", "E", "R", "T", " ", "'", "a">>, <<"b", "'", ")">>>>

\* the token of a line the splitter takes as a directive: the text after its
\* first word, trimmed, or None when the line is one word
DirectiveToken(line) ==
    LET t == Strip(line)
        ws == FirstOf(t, {" ", "\t"})
    IN  IF ws = 0 THEN None ELSE Some(Strip(SubSeq(t, ws, Len(t))))
\* the delimiter in force at line i: the token of the last directive before it
\* that has one, and ';' before any
ActiveAt(lines, i) ==
    LET ds == {j \in 1..(i - 1) : IsDirective(lines[j]) /\ DirectiveToken(lines[j]) # None}
    IN  IF ds = {} THEN <<";">>
        ELSE DirectiveToken(lines[CHOOSE j \in ds : \A k \in ds : k <= j])[1]
ClosesAt(lines, i) ==
    /\ ~IsDirective(lines[i])
    /\ Strip(lines[i]) # <<>>
    /\ EndsWith(Strip(lines[i]), ActiveAt(lines, i))
\* the text of the lines after line a up to the boundary b: up to and with a
\* closing line, without its delimiter, and up to but without a directive
Piece(lines, a, b) ==
    IF b <= Len(lines) /\ ClosesAt(lines, b)
    THEN LET r == RStrip(Join(SubSeq(lines, a + 1, b), "\n"))
         IN  Strip(SubSeq(r, 1, Len(r) - Len(ActiveAt(lines, b))))
    ELSE Strip(Join(SubSeq(lines, a + 1, b - 1), "\n"))
Pieces(lines) ==
    LET bs == {i \in 1..Len(lines) : IsDirective(lines[i]) \/ ClosesAt(lines, i)}
        nth(k) == IF k = 0 THEN 0
                  ELSE CHOOSE i \in bs : Cardinality({j \in bs : j <= i}) = k
    IN  [k \in 1..(Cardinality(bs) + 1) |->
            IF k <= Cardinality(bs) THEN Piece(lines, nth(k - 1), nth(k))
            ELSE Piece(lines, nth(k - 1), Len(lines) + 1)]

\* C27: a line taken as a directive is in no statement; the statements are the
\* non-empty texts between one boundary and the next, a boundary being a
\* directive (which ends the pending statement as it is) or a line whose
\* trimmed content ends with the delimiter in force, the token of the last
\* directive before it; a line ending otherwise stays in the pending
\* statement. The script of a procedure between DELIMITER $$ and DELIMITER ;
\* followed by SELECT 1; gives two statements.
C27_DirectiveFlushesAndSetsDelimiter ==
    SplitDone =>
        /\ ret.value = SelectSeq(Pieces(Kept(ret.arg)), LAMBDA s : s # <<>>)
        /\ \A n \in 1..Len(ret.value) :
               \A l \in Range(SplitOn(ret.value[n], "\n")) : ~IsDirective(l)
        /\ ret.arg \in {Join(script, "\n") : script \in ProcedureScripts} =>
               /\ Len(ret.value) = 2
               /\ ret.value[2] = <<"S", "E", "L", "E", "C", "T", " ", "1">>

\* the body of the procedure is on three lines, one of them ending with ';':
\* it is one statement, the ';' inside it
C27_ProcedureBodyKeepsSemicolon ==
    /\ SplitDone
    /\ ret.arg = Join(<<<<"D", "E", "L", "I", "M", "I", "T", "E", "R", " ", "$", "$">>, <<"C", "R", "E", "A", "T", "E", " ", "p", "(", ")">>, <<"S", "E", "L", "E", "C", "T", " ", "2", ";">>, <<"E", "N", "D", "$", "$">>, <<"D", "E", "L", "I", "M", "I", "T", "E", "R", " ", ";">>, <<"S", "E", "L", "E", "C", "T", " ", "1", ";">>>>, "\n")
    /\ ret.value = <<Join(<<<<"C", "R", "E", "A", "T", "E", " ", "p", "(", ")">>, <<"S", "E", "L", "E", "C", "T", " ", "2", ";">>, <<"E", "N", "D">>>>, "\n"), <<"S", "E", "L", "E", "C", "T", " ", "1">>>>

\* the keyword DELIMITER, then whitespace, then a token
WellFormedDirective(line) ==
    LET t == Strip(line)
    IN  /\ Len(t) > Len(kwDELIMITER) + 1
        /\ Upper(SubSeq(t, 1, Len(kwDELIMITER))) = kwDELIMITER
        /\ IsSpace(t[Len(kwDELIMITER) + 1])

\* C28: a line is a directive only when its trimmed content is the keyword
\* DELIMITER, whitespace and a token; so in a script with no such line every
\* line that is neither blank nor a comment is statement text, split at ';'.
C28_OnlyKeywordAndTokenIsDirective ==
    SplitDone /\ (\A l \in Range(SplitOn(ret.arg, "\n")) : ~WellFormedDirective(l)) =>
        ret.value = SelectSeq(Segments(Kept(ret.arg)), LAMBDA s : s # <<>>)

(***************************************************************************)
(* The loop and the summary of _execute_script on scripts of many          *)
(* statements.                                                             *)
(***************************************************************************)
MaxStatements == 3
\* the failures of the longest scripts beyond ErrorCap
MaxOver == 2

\* what happens to one statement of a script: execute_query returns result and
\* the display callback, if called, returns or raises; or execute_query raises
StatementReturns(success, affected, cbRaises) ==
    [kind |-> "returned", cbRaises |-> cbRaises,
     result |-> QueryResult("INSERT", success, <<>>, None, affected,
                            IF success THEN None ELSE Some("DatabaseError"))]
StatementRaises ==
    [kind |-> "raised", cbRaises |-> FALSE, result |-> None]
StatementOutcomes ==
    {StatementReturns(TRUE, None, FALSE), StatementReturns(TRUE, Some(0), FALSE),
     StatementReturns(TRUE, Some(3), FALSE), StatementReturns(TRUE, Some(3), TRUE),
     StatementReturns(FALSE, Some(5), FALSE), StatementRaises}
StatementFailures == {StatementReturns(FALSE, Some(5), FALSE), StatementRaises}
ShortRuns == UNION {[1..n -> StatementOutcomes] : n \in 0..MaxStatements}
\* many failures in a row, with at most one other statement before and after
LongRuns ==
    {before \o [i \in 1..k |-> f] \o after :
        before \in {<<>>} \cup [1..1 -> StatementOutcomes],
        after \in {<<>>} \cup [1..1 -> StatementOutcomes],
        k \in (ErrorCap - 1)..(ErrorCap + MaxOver),
        f \in StatementFailures}
ScriptRuns ==
    {[outcomes |-> o, display |-> d] :
        o \in ShortRuns \cup LongRuns, d \in BOOLEAN}

\* the for loop of _execute_script on a frame, the statements ending as given
RECURSIVE RunLoop(_, _)
RunLoop(f, outcomes) ==
    IF f.i > Len(f.statements) THEN f
    ELSE LET o == outcomes[f.i]
             stmt == Strip(f.statements[f.i])
         IN  RunLoop(IF stmt = <<>> THEN [f EXCEPT !.i = @ + 1]
                     ELSE IF o.kind = "raised"
                     THEN AfterRaise(f, stmt, Some("No active database connection"))
                     ELSE AfterResult(f, stmt, o.result, o.cbRaises),
                     outcomes)

\* a call of _execute_script on a script of as many statements is to be made
InitScript ==
    \E run \in ScriptRuns :
        Fields(<<>>) /\ ret = InProgress("_execute_script", run)

ExecuteScript ==
    /\ ret.op = "_execute_script"
    /\ ret.status = "running"
    /\ LET statements == [i \in 1..Len(ret.arg.outcomes) |-> sqlInsert]
           f == RunLoop(NewFrame(statements, ret.arg.display), ret.arg.outcomes)
       IN  ret' = Returned("_execute_script", ret.arg,
                           IF statements = <<>> THEN NoStatements ELSE Summary(f))
    /\ UNCHANGED <<active, config, connId, currentDb, vectorStatus, callbacks, sourceCb,
                   created, closed, everActive, registered, stack, log, scripts, locked,
                   lastConnected, lastCtx, lock, threads, duck>>

NextScript == ExecuteScript

SpecScript == InitScript /\ [][NextScript]_vars

ScriptDone == ret.op = "_execute_script" /\ ret.status = "returned"
\* the statements of the run counted as failed: the result says so,
\* execute_query raised, or the display callback raised
CountedFailed(run) ==
    {i \in 1..Len(run.outcomes) :
        \/ run.outcomes[i].kind = "raised"
        \/ ~run.outcomes[i].result.success
        \/ run.display /\ run.outcomes[i].cbRaises}
\* the k-th smallest member of a set of positions
Nth(S, k) == CHOOSE i \in S : Cardinality({j \in S : j <= i}) = k

RECURSIVE SumOfSucceeded(_, _)
SumOfSucceeded(run, i) ==
    IF i = 0 THEN 0
    ELSE SumOfSucceeded(run, i - 1)
         + (IF i \notin CountedFailed(run) /\ run.outcomes[i].result.affected_rows # None
            THEN run.outcomes[i].result.affected_rows[1] ELSE 0)

DirectiveBases == {<<"S", "E", "L", "E", "C", "T", " ", "1">>, <<"D", "R", "O", "P", " ", "t">>}
DirectiveEnds ==
    {<<>>, <<";">>, <<"\\", "G">>, <<"\\", "g">>, <<" ", "\\", "G", " ", ";", " ">>, <<"\\", "G", ";">>, <<"\\", "G", "\\", "G">>, <<"\\", "G", " ", ";", "\\", "g">>, <<"\\", "G", " ", "\\", "G", " ", ";">>}
DirectiveTexts == {b \o e : b \in DirectiveBases, e \in DirectiveEnds}

NextDirective ==
    \/ \E cfg \in Configs :
          \E dbinit \in DbInitFor(cfg, "ok"), probe \in ProbeFor("ok") :
             Connect(cfg, "ok", dbinit, probe)
    \/ \E sql \in DirectiveTexts :
          \E out \in OutcomesFor(ClassOf(sql)) : ExecuteQuery(sql, out)

SpecDirective == Init /\ [][NextDirective]_vars

\* the texts execute_query handed to the client in the call that returned
Forwarded ==
    {log[i].sql : i \in {j \in 1..Len(log) : log[j].e = "client.execute"}}
QueryReturned == ret.op = "execute_query" /\ ret.status = "returned"

\* C31: the text execute_query hands to the client does not end with a
\* vertical-display directive, whatever the text it was given, and
\* has_vertical_format_directive is true of a given text that ends with one.
C31_ForwardedTextHasNoDirective ==
    QueryReturned =>
        /\ \A sql \in Forwarded : ~has_vertical_format_directive(sql)
        /\ \A b \in DirectiveBases, e \in DirectiveEnds \ {<<>>, <<";">>} :
               ret.arg = b \o e => has_vertical_format_directive(ret.arg)

(***************************************************************************)
(* The last query context as a slot: set, get, consume, clear.             *)
(***************************************************************************)
MaxRows == 3
SlotRows == {"r1", "r2", "r3"}
RECURSIVE RowLists(_)
RowLists(n) ==
    IF n = 0 THEN {<<>>}
    ELSE RowLists(n - 1)
            \cup {Append(rows, r) : rows \in {l \in RowLists(n - 1) : Len(l) = n - 1},
                                    r \in SlotRows}
\* the caps a caller passes, the default among them
RowCaps == {0, 1, 2, DefaultMaxRows}
SlotArgs ==
    [sql : {sqlSelect, sqlInsert}, status : {"SUCCESS", "ERROR"},
     rows : RowLists(MaxRows), max_rows : RowCaps]

SetLastQueryContext(a) ==
    /\ Alive
    /\ stack = <<>>
    /\ lastCtx' = Some(set_last_query_context(
                          a.sql, a.status,
                          IF a.rows = <<>> THEN None ELSE Some(<<"c">>),
                          a.rows,
                          IF a.status = "SUCCESS" /\ a.rows = <<>> THEN Some(1) ELSE None,
                          IF a.status = "ERROR" THEN Some(<<"e">>) ELSE None,
                          a.max_rows))
    /\ ret' = Returned("set_last_query_context", a, None)
    /\ log' = <<>>
    /\ locked' = <<>>
    /\ UNCHANGED <<lastConnected, lock, threads, scripts, duck, active, config, connId,
                   currentDb, vectorStatus, callbacks, sourceCb, created, closed,
                   everActive, registered, stack>>

NextSlot ==
    \/ \E a \in SlotArgs : SetLastQueryContext(a)
    \/ GetLastQueryContext
    \/ ConsumeLastQueryContext
    \/ ClearLastQueryContext

SpecSlot == Init /\ [][NextSlot]_vars

\* the slot a set with arguments a leaves: all of it comes from a
SlotOf(a) ==
    [sql |-> a.sql, status |-> a.status,
     columns |-> IF a.rows = <<>> THEN None ELSE Some(<<"c">>),
     rows |-> IF a.rows = <<>> THEN None
              ELSE Some(SubSeq(a.rows, 1, Min(Len(a.rows), a.max_rows))),
     row_count |-> Len(a.rows),
     affected_rows |-> IF a.status = "SUCCESS" /\ a.rows = <<>> THEN Some(1) ELSE None,
     error_message |-> IF a.status = "ERROR" THEN Some(<<"e">>) ELSE None]

\* C32: after set_last_query_context with r rows and cap m the slot holds the
\* first min(r, m) rows (no row list when r = 0), row_count r and nothing of
\* the slot before it; consume_last_query_context returns the slot as it was
\* and leaves it empty; clear_last_query_context leaves it empty; get returns
\* the slot and leaves it as it was.
C32_SlotSetConsumeClear ==
    [][/\ ret'.op = "set_last_query_context" => lastCtx' = Some(SlotOf(ret'.arg))
       /\ ret'.op = "consume_last_query_context" =>
             ret'.value = lastCtx /\ lastCtx' = None
       /\ ret'.op = "clear_last_query_context" => lastCtx' = None
       /\ ret'.op = "get_last_query_context" =>
             ret'.value = lastCtx /\ lastCtx' = lastCtx]_vars

\* three rows were set under a cap of two, over a slot that held another
\* statement: two rows are stored and three are counted
C32_ThreeRowsCapTwo ==
    /\ ret.op = "set_last_query_context"
    /\ Len(ret.arg.rows) = 3 /\ ret.arg.max_rows = 2
    /\ lastCtx # None
    /\ Len(lastCtx[1].rows[1]) = 2 /\ lastCtx[1].row_count = 3

(***************************************************************************)
(* A SOURCE command run to its end: scripts that name themselves or each   *)
(* other.                                                                  *)
(***************************************************************************)
RunCommands == {sqlSourceA, sqlSourceF, sqlSourceG, sqlSourceH}

\* one step of the running call of execute_query: the loop of the innermost
\* _execute_script, or its return
ScriptStep ==
    \/ ScriptStatementStep
    \/ \E cbRaises \in BOOLEAN : ScriptSourceResult(cbRaises)
    \/ ScriptSourceEnter
    \/ \E where \in {"in_source_command", "in_execute_query"}, cbRaises \in BOOLEAN :
          ScriptSourceTooDeep(where, cbRaises)
    \/ \E cbRaises \in BOOLEAN : ScriptReturn(cbRaises)

NextRun ==
    \/ Connect(cfgFull, "ok", "null", "OFF")
    \/ \E on \in BOOLEAN : SetSourceDisplayCallback(on)
    \/ \E sql \in RunCommands : ExecuteSource(sql)
    \/ ScriptStep

\* the call of execute_query runs in its caller's thread and every backend
\* call returns: a step of the running script that can be taken is taken
SpecRun == Init /\ [][NextRun]_vars /\ WF_vars(ScriptStep)

\* the number of statements of the longest script
LongestScript ==
    LET lens == {Len(scripts[p].value) : p \in {q \in DOMAIN scripts : scripts[q].ok}}
    IN  CHOOSE n \in lens : \A m \in lens : m <= n

\* the steps a statement of a script at depth d can take at most: one, or,
\* above the recursion limit, the step into a script, its statements and its
\* return
RECURSIVE StatementSteps(_)
StatementSteps(d) ==
    IF d >= MaxDepth THEN 1 ELSE 2 + LongestScript * StatementSteps(d + 1)

\* the statements the loop at depth k has before it: for the innermost
\* script the one it is at is among them, for the others it is being run
StatementsLeft(k) ==
    Len(stack[k].statements) - stack[k].i + (IF k = Len(stack) THEN 1 ELSE 0)

RECURSIVE StepsLeftFrom(_)
StepsLeftFrom(k) ==
    IF k > Len(stack) THEN 0
    ELSE StatementsLeft(k) * StatementSteps(k) + 1 + StepsLeftFrom(k + 1)

\* a bound on the steps the running call of execute_query can still take
StepsLeft == StepsLeftFrom(1)

\* C34: every step of a running SOURCE command lowers a natural number, the
\* bound on the steps it has left, so the command cannot run forever, also
\* when its script names itself or a script that names it back; and the step
\* that ends the command returns a SOURCE summary.
C34_SourceTerminates ==
    [][stack # <<>> =>
          /\ StepsLeft' < StepsLeft
          /\ StepsLeft' >= 0
          /\ stack' = <<>> =>
                /\ ret'.op = "execute_query" /\ ret'.status = "returned"
                /\ ret'.value.query_type = "SOURCE"
                /\ ret'.script # None]_vars

\* SOURCE h has returned: h sourced k and k sourced h, as deep as the
\* interpreter allows, and the summary reports the failure
C34_MutualSourceReturned ==
    /\ ret.op = "execute_query" /\ ret.status = "returned"
    /\ ret.arg = sqlSourceH
    /\ stack = <<>>
    /\ ret.script # None
    /\ ~ret.value.success

(***************************************************************************)
(* connect, however it ends, disconnect and execute_query.                 *)
(***************************************************************************)
NextSession ==
    \/ \E cfg \in Configs, how \in ConnectPaths :
          \E dbinit \in DbInitFor(cfg, how), probe \in ProbeFor(how) :
             Connect(cfg, how, dbinit, probe)
    \/ Disconnect
    \/ \E sql \in Statements :
          \E out \in OutcomesFor(ClassOf(sql)) :
             ExecuteQuery(sql, out)

SpecSession == Init /\ [][NextSession]_vars

\* C35: whenever the service has no active client, its current database is
\* None and its capability status is UNKNOWN, after any sequence of connects
\* that returned, failed or were cancelled, disconnects and queries.
C35_NoClientNoSession ==
    active = NoClient => currentDb = None /\ vectorStatus = "UNKNOWN"

(***************************************************************************)
(* execute_query on one thread, disconnect or connect on another.          *)
(***************************************************************************)
\* thread t returns from execute_query in this step, having called the client
QueryReturns(t) == threads[t].op = "execute_query" /\ threads'[t] = Idle
\* thread t passes get_active_connection in this step and goes on to call
\* the client
QueryLooksUp(t) == threads[t] = Idle /\ threads'[t].op = "execute_query"
\* the clients execute_query called in the step
CalledInStep == {log'[i].client : i \in {j \in 1..Len(log') : log'[j].e = "client.execute"}}

sqlUseApp == <<"U", "S", "E", " ", Backtick>> \o dbApp \o <<Backtick>>
sqlUseNothing == <<"U", "S", "E", " ", ";">>
sqlCreate == <<"C", "R", "E", "A", "T", "E", " ", "T", "A", "B", "L", "E", " ", "t">>
sqlAlter == <<"a", "l", "t", "e", "r", " ", "t", "a", "b", "l", "e", " ", "t">>
sqlUpdate == <<"U", "P", "D", "A", "T", "E", " ", "t">>
sqlSelectQuoted ==
    <<"S", "E", "L", "E", "C", "T", " ", "'", "U", "S", "E", " ", "x", "'">>
EffectStatements ==
    {sqlSelect, sqlInsert, sqlUse, sqlUseApp, sqlUseNothing, sqlDrop, sqlCreate,
     sqlAlter, sqlUpdate, sqlSelectQuoted}

InitEffect == \E cbs \in {<<"cb1">>, <<cbFails, "cb2">>} : InitWith(cbs)

NextEffect ==
    \/ Connect(cfgFull, "ok", "null", "OFF")
    \/ Disconnect
    \/ \E sql \in EffectStatements :
          \E out \in OutcomesFor(ClassOf(sql)) :
             ExecuteQuery(sql, out)

SpecEffect == InitEffect /\ [][NextEffect]_vars

\* C37: an execute_query that fails (the client raises, or there is no client)
\* leaves the current database as it was and calls no schema-change callback;
\* one that succeeds changes the current database only when the statement is
\* a USE that names a database, to that name, and calls the callbacks only
\* when the statement is a USE, CREATE, DROP or ALTER.
C37_QueryEffects ==
    [][ret'.op = "execute_query" =>
          LET failed == ret'.status = "raised" \/ ~ret'.value.success
              notified == \E i \in 1..Len(log') : IsNotify(log'[i])
              qt == ClassOf(ret'.arg)
          IN  /\ failed => currentDb' = currentDb /\ ~notified
              /\ currentDb' # currentDb =>
                    /\ qt = "USE"
                    /\ ret'.arg \in {sqlUse, sqlUseApp}
                    /\ currentDb' = IF ret'.arg = sqlUse THEN Some(<<"d">>) ELSE Some(dbApp)
              /\ notified => qt \in {"USE", "CREATE", "DROP", "ALTER"}]_vars

\* 'use d;' succeeded on a service whose database was app: the database is d
\* and the callbacks were called
C37_UseChangedDatabase ==
    /\ ret.op = "execute_query" /\ ret.status = "returned"
    /\ ret.arg = sqlUse /\ ret.value.success
    /\ currentDb = Some(<<"d">>)
    /\ \E i \in 1..Len(log) : IsNotify(log[i])

\* the statements of the run on which execute_query returned a result with
\* success True
Succeeded(run) ==
    {i \in 1..Len(run.outcomes) :
        run.outcomes[i].kind = "returned" /\ run.outcomes[i].result.success}

\* C38: a display callback that raises does not change how a statement is
\* counted: no statement whose result has success True is listed as failed,
\* and a script whose statements all succeeded reports success.
C38_CallbackExceptionNotCounted ==
    ScriptDone /\ Len(ret.arg.outcomes) > 0 =>
        /\ Succeeded(ret.arg) = 1..Len(ret.arg.outcomes) => ret.value.success
        /\ ret.value.error # None =>
              \A k \in 1..Len(ret.value.error[1].listed) :
                  ret.value.error[1].listed[k].pos \notin Succeeded(ret.arg)

(***************************************************************************)
(* create_connection_context and create_duckdb_connection_context.         *)
(***************************************************************************)
MaxContextSources == 2

\* the methods the class DuckDBClient defines
DuckDBClientMethods ==
    {"execute", "fetchall", "fetchone", "close", "change_database", "engine_name",
     "get_transaction_state", "begin_transaction", "commit_transaction",
     "rollback_transaction", "set_autocommit", "get_autocommit", "ping", "get_columns",
     "get_row_count", "load_file"}

\* the ConnectionConfig a DuckDB context is given
duckdbConfig == [engine |-> "duckdb", port |-> None, password |-> None, database |-> None]

\* table_name, row_count, column_count, _ = value
UnpackFour(value) ==
    IF Len(value) = 4 THEN Return(value)
    ELSE Raise("ValueError", "not enough values to unpack (expected 4)")

\* DuckDBClient.load_file(): the file of the URL the client was built with
client_load_file(src) ==
    IF src.parsed_url.protocol \notin {"file", "http", "https"}
    THEN Raise("FileLoadError", "Cannot load file for protocol")
    ELSE load_file(src, infer_table_name(src.parsed_url.original_url))

\* client.load_files(file_urls): the attribute is looked up on the client
client_load_files(file_urls) ==
    IF "load_files" \in DuckDBClientMethods THEN load_files(file_urls).out
    ELSE Raise("AttributeError", "'DuckDBClient' object has no attribute 'load_files'")

FirstThree(result) == <<result[1], result[2], result[3]>>

\* the branch of one file source
LoadInfoOfOne(primary) ==
    IF ~client_load_file(primary).ok THEN client_load_file(primary)
    ELSE IF ~UnpackFour(client_load_file(primary).value).ok
    THEN UnpackFour(client_load_file(primary).value)
    ELSE Return(<<FirstThree(client_load_file(primary).value)>>)

\* the branch of several file sources
LoadInfoOfSeveral(file_urls) ==
    IF ~client_load_files(file_urls).ok THEN client_load_files(file_urls)
    ELSE Return([i \in 1..Len(client_load_files(file_urls).value) |->
                    FirstThree(client_load_files(file_urls).value[i])])

\* load_info after the block "if file_urls:", or the exception that leaves it
LoadInfo(primary, file_urls) ==
    IF file_urls = <<>> THEN Return(None)
    ELSE IF Len(file_urls) = 1 THEN LoadInfoOfOne(primary)
    ELSE LoadInfoOfSeveral(file_urls)

\* the sources with is_file_protocol or is_http_protocol
FileSources(srcs) ==
    SelectSeq(srcs, LAMBDA s : s.parsed_url.protocol \in {"file", "http", "https"})

\* the handler of the load block closes the client for these, and re-raises
LoadErrors == {"FileLoadError", "UnsupportedFileFormatError"}

\* the ConnectionContext of a DuckDB source, with the _duckdb_load_info of
\* its service
Context(status, error, load_info) ==
    [status |-> status, error |-> error, load_info |-> load_info]

\* an exception before a client exists: of parse, or of duckdb.connect
ContextWithoutClient(exc) ==
    /\ ret' = Returned("create_duckdb_connection_context", ret.arg,
                       Context("failed", Some(exc), None))
    /\ log' = <<>>
    /\ locked' = <<>>
    /\ UNCHANGED <<active, config, connId, currentDb, vectorStatus, callbacks, sourceCb,
                   created, closed, everActive, registered, stack, scripts,
                   lastConnected, lastCtx, lock, threads, duck>>

\* the client is built and installed, and the file sources are loaded
ContextWithClient(client, srcs, info) ==
    /\ created' = client
    /\ active' = client
    /\ everActive' = everActive \cup {client}
    /\ config' = Some(duckdbConfig)
    /\ connId' = Some(<<"d", "u", "c", "k", "d", "b", "_">> \o url_of(srcs[1].parsed_url))
    /\ closed' = IF ~info.ok /\ info.exc \in LoadErrors THEN closed \cup {client}
                 ELSE closed
    /\ log' = IF ~info.ok /\ info.exc \in LoadErrors THEN <<CloseEvent(client)>> ELSE <<>>
    /\ locked' = <<>>
    /\ ret' = Returned("create_duckdb_connection_context", ret.arg,
                       IF info.ok THEN Context("connected", None, info.value)
                       ELSE Context("failed", Some(info.exc), None))
    /\ UNCHANGED <<currentDb, vectorStatus, callbacks, sourceCb, registered, stack,
                   scripts, lastConnected, lastCtx, lock, threads, duck>>

SourcesOf(urls) == [i \in 1..Len(urls) |-> Source(urls[i].url, urls[i].env)]

\* create_duckdb_connection_context(url) on the service it has just made;
\* opens: duckdb.connect returns a connection
CreateDuckDBConnectionContext ==
    /\ ret.op = "create_duckdb_connection_context"
    /\ ret.status = "running"
    /\ IF \E i \in 1..Len(ret.arg.urls) : ~parse(ret.arg.urls[i].url).ok
       THEN ContextWithoutClient("ValueError")
       ELSE IF ~ret.arg.opens THEN ContextWithoutClient("Exception")
       ELSE \E srcs \in {SourcesOf(ret.arg.urls)} :
               \E info \in {LoadInfo(srcs[1], FileSources(srcs))} :
                  ContextWithClient(created + 1, srcs, info)

\* create_connection_context on the service it has just made: the connect
\* call, whose outcome decides the status of the context
CreateConnectionContext ==
    /\ ret.op = "create_connection_context"
    /\ ret.status = "running"
    /\ \E cfg \in {ret.arg}, how \in ConnectPaths :
          \E dbinit \in DbInitFor(cfg, how), probe \in ProbeFor(how) :
             ConnectAs("create_connection_context", cfg, how, dbinit, probe, FALSE)

ContextUrls ==
    {<<"f", "i", "l", "e", ":", "/", "/", "/", "a", ".", "c", "s", "v">>, <<"f", "i", "l", "e", ":", "/", "/", "/", "d", "/", "a", ".", "c", "s", "v">>, <<"h", "t", "t", "p", ":", "/", "/", "h", "/", "a", "_", "1", ".", "x", "l", "s", "x">>, <<"f", "i", "l", "e", ":", "/", "/", "/", "a", ".", "t", "x", "t">>,
     <<"d", "u", "c", "k", "d", "b", ":", "/", "/", ":", "m", "e", "m", "o", "r", "y", ":">>, <<"f", "t", "p", ":", "/", "/", "h", "/", "a", ".", "c", "s", "v">>}
ContextSources == [url : ContextUrls, env : LoadEnvs]
ContextBatches == UNION {[1..n -> ContextSources] : n \in 1..MaxContextSources}

\* one of the two functions has made its DatabaseService and is to go on
InitFactory ==
    /\ Fields(<<>>)
    /\ \/ \E cfg \in Configs : ret = InProgress("create_connection_context", cfg)
       \/ \E urls \in ContextBatches, opens \in BOOLEAN :
             ret = InProgress("create_duckdb_connection_context",
                              [urls |-> urls, opens |-> opens])

NextFactory ==
    \/ CreateConnectionContext
    \/ CreateDuckDBConnectionContext

SpecFactory == InitFactory /\ [][NextFactory]_vars

\* one of the two functions has returned its ConnectionContext
ContextReturned ==
    /\ ret.op \in {"create_connection_context", "create_duckdb_connection_context"}
    /\ ret.status # "running"

\* the status of that context: for create_connection_context CONNECTED when
\* connect returned and FAILED when it raised
ContextStatus ==
    IF ret.op = "create_connection_context"
    THEN IF ret.status = "returned" THEN "connected" ELSE "failed"
    ELSE ret.value.status

\* C39: a context with status FAILED bundles a service with no active client,
\* and every client built for it was closed; a context with status CONNECTED
\* bundles a service with an active client that was not closed.
C39_FailedContextHasNoClient ==
    ContextReturned =>
        /\ ContextStatus = "failed" => active = NoClient /\ 1..created \subseteq closed
        /\ ContextStatus = "connected" => active # NoClient /\ active \notin closed

\* the part of it that is about create_connection_context
ConnectContextFailsClean ==
    ret.op = "create_connection_context" => C39_FailedContextHasNoClient

\* every URL is a file, http or https source whose load succeeds
AllSourcesLoad(arg) ==
    /\ arg.opens
    /\ \A i \in 1..Len(arg.urls) :
          /\ parse(arg.urls[i].url).ok
          /\ parse(arg.urls[i].url).value.protocol \in {"file", "http", "https"}
          /\ Loads(Source(arg.urls[i].url, arg.urls[i].env))

\* C40: when every URL is a file, http or https source whose load succeeds,
\* the context has status CONNECTED and the load info has one entry of three
\* items for each source, for one source as for several.
C40_LoadedSourcesRecorded ==
    (/\ ret.op = "create_duckdb_connection_context"
     /\ ret.status = "returned"
     /\ AllSourcesLoad(ret.arg)) =>
        /\ ret.value.status = "connected"
        /\ Len(ret.value.load_info) = Len(ret.arg.urls)
        /\ \A i \in 1..Len(ret.value.load_info) : Len(ret.value.load_info[i]) = 3

====
